---------------------------- MODULE Spec2Model ----------------------------
(***************************************************************************)
(* A model of the request dispatch and context lifecycle engine of         *)
(* src/flask/app.py (class Flask).                                          *)
(*                                                                         *)
(* Three specifications share the module:                                  *)
(*   Spec       one execution unit handling requests through wsgi_app,     *)
(*              step by step (push, before-first hooks, preprocessing,     *)
(*              dispatch, error handling, finalization, auto-pop);         *)
(*   SpecFirst  several threads racing through                             *)
(*              try_trigger_before_first_request_functions, and run();     *)
(*   SpecFind   _find_error_handler applied to registries built by         *)
(*              register_error_handler.                                    *)
(***************************************************************************)
EXTENDS Integers, Sequences, FiniteSets, TLC

(***************************************************************************)
(* Bounds of the model.                                                    *)
(***************************************************************************)
\* error handlers registered on the application in Spec
MaxHandlers == 1
\* error handlers registered in SpecFind
MaxFindHandlers == 3
\* threads issuing requests concurrently in SpecFirst
NThreads == 2
\* requests each thread of SpecFirst issues
MaxRequests == 2
\* times run() returns in SpecFirst
MaxRuns == 1
\* requests each thread issues in SpecFirstFair
MaxFairRequests == 1

(***************************************************************************)
(* Python's None, for names (blueprints, classes, hooks) and for codes.    *)
(***************************************************************************)
None == "None"
NoCode == 0

(***************************************************************************)
(* The exception classes of werkzeug and of the application that the       *)
(* engine tells apart, with their method resolution order (the class       *)
(* itself first, then its ancestors, nearest first) and the status code    *)
(* an HTTPException subclass carries.                                       *)
(***************************************************************************)
Classes ==
    { "Exception", "AppError", "SubAppError", "TypeError", "AssertionError",
      "HTTPException", "NotFound", "BadRequest", "BadRequestKeyError",
      "InternalServerError", "RoutingException", "RequestRedirect" }

Mro(cls) ==
    CASE cls = "Exception" -> << "Exception" >>
      [] cls = "AppError" -> << "AppError", "Exception" >>
      [] cls = "SubAppError" -> << "SubAppError", "AppError", "Exception" >>
      [] cls = "TypeError" -> << "TypeError", "Exception" >>
      [] cls = "AssertionError" -> << "AssertionError", "Exception" >>
      [] cls = "HTTPException" -> << "HTTPException", "Exception" >>
      [] cls = "NotFound" -> << "NotFound", "HTTPException", "Exception" >>
      [] cls = "BadRequest" -> << "BadRequest", "HTTPException", "Exception" >>
      [] cls = "BadRequestKeyError" ->
           << "BadRequestKeyError", "BadRequest", "HTTPException", "Exception" >>
      [] cls = "InternalServerError" ->
           << "InternalServerError", "HTTPException", "Exception" >>
      [] cls = "RoutingException" -> << "RoutingException", "Exception" >>
      [] cls = "RequestRedirect" ->
           << "RequestRedirect", "HTTPException", "RoutingException", "Exception" >>
      [] cls = "MethodNotAllowed" -> << "MethodNotAllowed", "HTTPException", "Exception" >>
      [] cls = "FormDataRoutingRedirect" ->
           << "FormDataRoutingRedirect", "AssertionError", "Exception" >>
      [] cls = "KeyboardInterrupt" -> << "KeyboardInterrupt", "BaseException" >>
      [] OTHER -> << cls >>

SeqToSet(s) == { s[i] : i \in 1..Len(s) }

\* isinstance(e, base) for an exception e of class cls
IsInstance(cls, base) == base \in SeqToSet(Mro(cls))

\* the class attribute `code` of an exception class (None on HTTPException itself)
ClassCode(cls) ==
    CASE cls = "NotFound" -> 404
      [] cls = "BadRequest" -> 400
      [] cls = "BadRequestKeyError" -> 400
      [] cls = "InternalServerError" -> 500
      [] cls = "RequestRedirect" -> 308
      [] cls = "MethodNotAllowed" -> 405
      [] OTHER -> NoCode

\* Scaffold._get_exc_class_and_code: the class and, for an HTTPException
\* subclass, its code; otherwise no code
GetExcClassAndCode(cls) ==
    [ cls |-> cls,
      code |-> IF IsInstance(cls, "HTTPException") THEN ClassCode(cls) ELSE NoCode ]

(***************************************************************************)
(* The error-handler registry, error_handler_spec[name][code][class]: a    *)
(* function from the scope names present (None is the application, "bp" a  *)
(* blueprint) to the set of entries [code, cls] registered under it.  The  *)
(* handler registered under an entry is named by its place.                *)
(***************************************************************************)
Blueprints == { "bp" }
Scopes == { None } \cup Blueprints

Handler(name, code, cls) == [name |-> name, code |-> code, cls |-> cls]
NoHandler == Handler(None, NoCode, None)

\* error_handler_spec.setdefault(name, {})
SetDefault(spec, name) ==
    IF name \in DOMAIN spec THEN spec
    ELSE [n \in DOMAIN spec \cup {name} |-> IF n = name THEN {} ELSE spec[n]]

\* register_error_handler(code_or_exception, f) on scope `name`
RegisterErrorHandler(spec, name, cls) ==
    LET k == GetExcClassAndCode(cls)
        s == SetDefault(spec, name)
    IN  [s EXCEPT ![name] = @ \cup { [code |-> k.code, cls |-> k.cls] }]

\* error_handler_spec.setdefault(name, {}).get(c): the classes with a handler
HandlerMap(spec, name, c) ==
    IF name \in DOMAIN spec THEN { r.cls : r \in { x \in spec[name] : x.code = c } }
    ELSE {}

\* the first class of the mro with an entry in the map: its position, 0 if none
FirstInMro(mro, classes) ==
    LET hits == { i \in 1..Len(mro) : mro[i] \in classes }
    IN  IF hits = {} THEN 0 ELSE CHOOSE i \in hits : \A j \in hits : i <= j

\* the four (name, code) pairs _find_error_handler tries, in its order
LookupOrderAppFirst(bp, code) ==
    << [name |-> None, code |-> code], [name |-> bp, code |-> code],
       [name |-> None, code |-> NoCode], [name |-> bp, code |-> NoCode] >>

LookupOrder(bp, code) ==
    << [name |-> bp, code |-> code], [name |-> None, code |-> code],
       [name |-> bp, code |-> NoCode], [name |-> None, code |-> NoCode] >>

\* the handler one (name, code) map gives for class cls, walking its mro
MapLookupExactOnly(spec, name, c, cls) ==
    IF cls \in HandlerMap(spec, name, c) THEN Handler(name, c, cls) ELSE NoHandler

MapLookup(spec, name, c, cls) ==
    LET i == FirstInMro(Mro(cls), HandlerMap(spec, name, c))
    IN  IF i = 0 THEN NoHandler ELSE Handler(name, c, Mro(cls)[i])

\* Flask._find_error_handler(e) with request.blueprint = bp, type(e) = cls
FindErrorHandler(spec, bp, cls) ==
    LET k == GetExcClassAndCode(cls)
        order == LookupOrder(bp, k.code)
        found == { i \in 1..Len(order) :
                     MapLookup(spec, order[i].name, order[i].code, k.cls) # NoHandler }
    IN  IF found = {} THEN NoHandler
        ELSE LET i == CHOOSE i \in found : \A j \in found : i <= j
             IN  MapLookup(spec, order[i].name, order[i].code, k.cls)

\* error_handler_spec after _find_error_handler(e): every name tried before the
\* search returned has become a key (setdefault)
SpecAfterFindCleared(spec, bp, cls) == [n \in DOMAIN spec \cup { bp } |-> {}]

SpecAfterFind(spec, bp, cls) ==
    LET k == GetExcClassAndCode(cls)
        order == LookupOrder(bp, k.code)
        found == { i \in 1..Len(order) :
                     MapLookup(spec, order[i].name, order[i].code, k.cls) # NoHandler }
        last == IF found = {} THEN Len(order)
                ELSE CHOOSE i \in found : \A j \in found : i <= j
    IN  IF last >= 2 THEN SetDefault(SetDefault(spec, bp), None)
        ELSE SetDefault(spec, bp)

(***************************************************************************)
(* Values a view function, a hook or an error handler may return, and the  *)
(* canonical response.  A value has a tag t; a status element carries its  *)
(* number in st, a headers element or a response its headers in hd (a set  *)
(* of <<key, value>> pairs), an exception object its class in a, a tuple   *)
(* its elements in items.                                                  *)
(***************************************************************************)
V(t) == [t |-> t, a |-> None, st |-> 0, hd |-> {}, items |-> << >>]
NoneV == V("none")
StrV == V("str")
TextV(text) == [V("str") EXCEPT !.a = text]
BytesV == V("bytes")
DictV == V("dict")
ObjV == V("object")
IntV(n) == [V("int") EXCEPT !.st = n]
StatusStrV(n) == [V("str") EXCEPT !.st = n]
HeadersV(t, hd) == [V(t) EXCEPT !.hd = hd]
RespV(st, hd) == [V("response") EXCEPT !.st = st, !.hd = hd]
ExcV(cls) == [V("exception") EXCEPT !.a = cls]
TupleV(items) == [V("tuple") EXCEPT !.items = items]

DefaultStatus == 200
NoResponse == [status |-> 0, headers |-> {}, body |-> None]
Response(status, headers, body) == [status |-> status, headers |-> headers, body |-> body]

\* Headers.update(given): the given keys replace, the other keys stay
HeadersReplace(old, given) == given

HeadersUpdate(old, given) ==
    { p \in old : ~ \E q \in given : q[1] = p[1] } \cup given

\* the status an exception object answers with when called as a WSGI application
ExceptionStatus(cls) ==
    IF ClassCode(cls) = NoCode THEN DefaultStatus ELSE ClassCode(cls)

\* make_response, lines 1629-1657: the body alone made a response_class instance;
\* ok is FALSE where the code raises TypeError
CoerceBodyLenient(body, status, headers) ==
    IF body.t = "response"
    THEN [ok |-> TRUE, applied |-> FALSE, resp |-> Response(body.st, body.hd, "response")]
    ELSE [ok |-> TRUE, applied |-> FALSE, resp |-> Response(DefaultStatus, {}, body.t)]

CoerceBody(body, status, headers) ==
    CASE body.t = "response" ->
           [ok |-> TRUE, applied |-> FALSE, resp |-> Response(body.st, body.hd, "response")]
      [] body.t \in {"str", "bytes"} ->
           [ok |-> TRUE, applied |-> TRUE,
            resp |-> Response(IF status.t = "none" THEN DefaultStatus ELSE status.st,
                              IF headers.t = "none" THEN {} ELSE headers.hd,
                              IF body.a = None THEN body.t ELSE body.a)]
      [] body.t = "dict" ->
           [ok |-> TRUE, applied |-> FALSE,
            resp |-> Response(DefaultStatus, {<< "Content-Type", "application/json" >>}, "json")]
      [] body.t = "exception" /\ IsInstance(body.a, "HTTPException") ->
           [ok |-> TRUE, applied |-> FALSE,
            resp |-> Response(ExceptionStatus(body.a), {}, body.a)]
      [] body.t = "wsgi" ->
           [ok |-> TRUE, applied |-> FALSE, resp |-> Response(DefaultStatus, {}, "wsgi")]
      [] OTHER -> [ok |-> FALSE, applied |-> FALSE, resp |-> NoResponse]

\* make_response, lines 1598-1619: a tuple unpacked into body, status and headers
UnpackSecondAsStatus(rv) ==
    IF rv.t # "tuple" THEN [ok |-> TRUE, body |-> rv, status |-> NoneV, headers |-> NoneV]
    ELSE IF Len(rv.items) = 3
    THEN [ok |-> TRUE, body |-> rv.items[1], status |-> rv.items[2], headers |-> rv.items[3]]
    ELSE IF Len(rv.items) = 2
    THEN [ok |-> TRUE, body |-> rv.items[1], status |-> rv.items[2], headers |-> NoneV]
    ELSE [ok |-> FALSE, body |-> NoneV, status |-> NoneV, headers |-> NoneV]

Unpack(rv) ==
    IF rv.t # "tuple" THEN [ok |-> TRUE, body |-> rv, status |-> NoneV, headers |-> NoneV]
    ELSE IF Len(rv.items) = 3
    THEN [ok |-> TRUE, body |-> rv.items[1], status |-> rv.items[2], headers |-> rv.items[3]]
    ELSE IF Len(rv.items) = 2
    THEN IF rv.items[2].t \in {"headers", "dict", "tuple", "list"}
         THEN [ok |-> TRUE, body |-> rv.items[1], status |-> NoneV, headers |-> rv.items[2]]
         ELSE [ok |-> TRUE, body |-> rv.items[1], status |-> rv.items[2], headers |-> NoneV]
    ELSE [ok |-> FALSE, body |-> NoneV, status |-> NoneV, headers |-> NoneV]

\* Flask.make_response(rv): [ok, resp], ok FALSE for a TypeError
MakeResponse(rv) ==
    LET u == Unpack(rv)
    IN  IF ~u.ok \/ u.body.t = "none" THEN [ok |-> FALSE, resp |-> NoResponse]
        ELSE LET c == CoerceBody(u.body, u.status, u.headers)
                 st == IF c.applied \/ u.status.t = "none" THEN c.resp.status
                       ELSE u.status.st
                 hd == IF c.applied \/ u.headers.t = "none" \/ u.headers.hd = {}
                       THEN c.resp.headers
                       ELSE HeadersUpdate(c.resp.headers, u.headers.hd)
             IN  IF ~c.ok THEN [ok |-> FALSE, resp |-> NoResponse]
                 ELSE [ok |-> TRUE, resp |-> Response(st, hd, c.resp.body)]

(***************************************************************************)
(* The application's configuration and the properties read from it.        *)
(* A key that may be None, True or False holds "None", "True" or "False".  *)
(***************************************************************************)
Tri == { "None", "True", "False" }

Configs ==
    [ DEBUG : BOOLEAN, TESTING : BOOLEAN, PROPAGATE_EXCEPTIONS : Tri,
      TRAP_HTTP_EXCEPTIONS : BOOLEAN, TRAP_BAD_REQUEST_ERRORS : Tri ]

\* the configurations Spec starts from: debug and propagate_exceptions on and
\* off independently, HTTP exceptions trapped or not
SpecConfigs ==
    { c \in Configs :
        /\ ~c.TESTING
        /\ c.TRAP_BAD_REQUEST_ERRORS = "None"
        /\ << c.DEBUG, c.PROPAGATE_EXCEPTIONS >> \in
             { << FALSE, "None" >>, << TRUE, "None" >>,
               << FALSE, "True" >>, << TRUE, "False" >> } }

\* Flask.default_config, with DEBUG as get_debug_flag() gives it in production
DefaultConfig ==
    [ DEBUG |-> FALSE, TESTING |-> FALSE, PROPAGATE_EXCEPTIONS |-> "None",
      TRAP_HTTP_EXCEPTIONS |-> FALSE, TRAP_BAD_REQUEST_ERRORS |-> "None" ]

\* Flask.debug
Debug(c) == c.DEBUG

\* Flask.propagate_exceptions
PropagateAlways(c) == TRUE

PropagateExceptions(c) ==
    IF c.PROPAGATE_EXCEPTIONS # "None" THEN c.PROPAGATE_EXCEPTIONS = "True"
    ELSE c.TESTING \/ Debug(c)

TrapHttpExceptionInDebug(c, cls) ==
    IF c.TRAP_HTTP_EXCEPTIONS THEN TRUE
    ELSE IF Debug(c) /\ IsInstance(cls, "BadRequestKeyError") THEN TRUE
    ELSE IF c.TRAP_BAD_REQUEST_ERRORS = "True" THEN IsInstance(cls, "BadRequest")
    ELSE FALSE

\* Flask.trap_http_exception(e), e an HTTPException of class cls
TrapHttpException(c, cls) ==
    IF c.TRAP_HTTP_EXCEPTIONS THEN TRUE
    ELSE IF c.TRAP_BAD_REQUEST_ERRORS = "None" /\ Debug(c)
            /\ IsInstance(cls, "BadRequestKeyError")
    THEN TRUE
    ELSE IF c.TRAP_BAD_REQUEST_ERRORS = "True" THEN IsInstance(cls, "BadRequest")
    ELSE FALSE

\* Flask.should_ignore_error(error)
ShouldIgnoreError(e) == FALSE

(***************************************************************************)
(* The hooks the application registered, by scope, in registration order.  *)
(***************************************************************************)
before_first_request_funcs == << "f1", "f2" >>

url_value_preprocessors(name) == IF name = None THEN << "u1", "u2" >> ELSE << "bu1" >>

before_request_funcs(name) == IF name = None THEN << "b1", "b2" >> ELSE << "bb1" >>

after_request_funcs(name) ==
    IF name = None THEN << "a1", "a2", "a3" >> ELSE << "ba1", "ba2" >>

teardown_request_funcs(name) ==
    IF name = None THEN << "t1", "t2" >> ELSE << "bt1", "bt2" >>

teardown_appcontext_funcs == << "ta1", "ta2" >>

\* the functions a view registers for the present request only
\* (ctx._after_request_functions), in registration order
after_this_request_funcs == << "r1", "r2" >>

AsRegistered(s) == s

Reversed(s) == [i \in 1..Len(s) |-> s[Len(s) + 1 - i]]

\* the exceptions and the values user code produces in the model
HookRaises == { "AppError" }

\* the hooks of a request that may raise: one of each phase, none the first of
\* its list, so that a failure interrupts a run of hooks that has begun
RaisingHooks == { "u2", "b2", "a2" }
ViewRaises == { "AppError", "NotFound", "BadRequestKeyError", "HTTPException",
                "KeyboardInterrupt" }
HandlerRaises == { "AppError" }
ListenerRaises == { "AppError" }
ViewValues == { StrV, NoneV, TupleV(<< StrV, IntV(201) >>) }
HookValues == { StrV }
HandlerValues == { StrV, NoneV }
Methods == { "GET", "POST", "OPTIONS" }
RoutingExceptions == { "NotFound", "RequestRedirect" }

\* the classes error handlers are registered for in SpecFind
FindClasses ==
    { "Exception", "AppError", "HTTPException", "NotFound", "BadRequest",
      "BadRequestKeyError", "RoutingException", "RequestRedirect" }

\* the classes error handlers are registered for in Spec
HandlerClasses ==
    { "AppError", "HTTPException", "InternalServerError", "RequestRedirect" }

(***************************************************************************)
(* State.                                                                  *)
(***************************************************************************)
VARIABLES
    config,               \* Flask.config
    error_handler_spec,   \* Flask.error_handler_spec
    got_first_request,    \* Flask._got_first_request
    before_request_lock,  \* Flask._before_request_lock: 0 free, else the holder
    first_calls,          \* SpecFirst: how often each before-first hook was invoked
    serving,              \* a request was pushed: the setup phase is over
    request_ctx_stack,    \* _request_ctx_stack of the execution unit
    app_ctx_stack,        \* _app_ctx_stack of the execution unit
    pc,                   \* where wsgi_app stands
    rv,                   \* the value being finalized
    exc,                  \* the exception being handled
    error,                \* wsgi_app's local `error`
    from_error_handler,   \* the flag finalize_request was called with
    response,             \* wsgi_app's local `response`
    raised,               \* the exception leaving wsgi_app
    left_by,              \* what let it leave: "bare", "propagate", "listener",
                          \* "handler" (the 500 handler raised), "normalizer"
    log,                  \* the hooks, views and listeners invoked by this call
    handler_calls,        \* the error handlers invoked by this call, with arguments
    torn,                 \* do_teardown_request runs since the last push
    result,               \* how the last call of wsgi_app ended
    tpc, tidx, tleft,     \* SpecFirst: each thread's position, hook index, requests left
    runs,                 \* SpecFirst: times run() returned
    first_raised,         \* SpecFirst: a before-first hook has raised
    probe                 \* SpecFind: the last lookup and what it returned

appVars == << config, error_handler_spec, got_first_request, before_request_lock,
              first_calls, serving >>
unitVars == << request_ctx_stack, app_ctx_stack, pc, rv, exc, error,
               from_error_handler, response, raised, left_by, log, handler_calls,
               torn, result >>
threadVars == << tpc, tidx, tleft, runs, first_raised >>
vars == << appVars, unitVars, threadVars, probe >>

NoResult == [kind |-> "none", status |-> 0, exc |-> None, propagate |-> FALSE]
NoProbe == [bp |-> None, cls |-> None, handler |-> NoHandler]

\* one invocation of a hook, a view or a listener: what was invoked, what it
\* was given, and how it ended ("returned" None, returned a "value", "raised")
Event(ev, who, arg) == [ev |-> ev, who |-> who, arg |-> arg, out |-> "returned"]
Events(ev, hooks, n, arg) == [i \in 1..n |-> Event(ev, hooks[i], arg)]

\* the invocations evs, the last of which ended the way `out` says
Ended(evs, out) ==
    [i \in 1..Len(evs) |-> IF i = Len(evs) THEN [evs[i] EXCEPT !.out = out] ELSE evs[i]]

Frame(bp, routing, owns) ==
    [bp |-> bp, routing |-> routing, owns_app |-> owns,
     after_request_functions |-> << >>,
     preserved |-> FALSE, preserved_exc |-> None]

Top == request_ctx_stack[Len(request_ctx_stack)]

\* Flask._is_setup_finished
IsSetupFinished == Debug(config) /\ got_first_request

InitCommon ==
    /\ error_handler_spec = [n \in {None} |-> {}]
    /\ got_first_request = FALSE
    /\ before_request_lock = 0
    /\ first_calls = [h \in SeqToSet(before_first_request_funcs) |-> 0]
    /\ serving = FALSE
    /\ request_ctx_stack = << >>
    /\ app_ctx_stack = << >>
    /\ pc = "idle"
    /\ rv = NoneV
    /\ exc = None
    /\ error = None
    /\ from_error_handler = FALSE
    /\ response = NoResponse
    /\ raised = None
    /\ left_by = None
    /\ log = << >>
    /\ handler_calls = << >>
    /\ torn = 0
    /\ result = NoResult
    /\ runs = 0
    /\ first_raised = FALSE
    /\ probe = NoProbe

Init ==
    /\ InitCommon
    /\ config \in SpecConfigs
    /\ tpc = << >>
    /\ tidx = << >>
    /\ tleft = << >>

(***************************************************************************)
(* Spec: one execution unit.  Each action is one step of wsgi_app; a step  *)
(* that raises includes the except clause that catches the exception.      *)
(***************************************************************************)
NumHandlers(spec) ==
    Cardinality({ << n, r >> \in UNION { {n} \X spec[n] : n \in DOMAIN spec } : TRUE })

\* errorhandler / register_error_handler during the setup phase
Register ==
    /\ pc = "idle"
    /\ ~serving
    /\ NumHandlers(error_handler_spec) < MaxHandlers
    /\ \E name \in Scopes, cls \in HandlerClasses :
         /\ cls \notin HandlerMap(error_handler_spec, name, GetExcClassAndCode(cls).code)
         /\ error_handler_spec' = RegisterErrorHandler(error_handler_spec, name, cls)
    /\ UNCHANGED << config, got_first_request, before_request_lock, first_calls,
                    serving, unitVars, threadVars, probe >>

\* wsgi_app, lines 1974-1979: an exception leaving full_dispatch_request
CatchInWsgiAppOnlyBare(e) ==
    /\ error' = e
    /\ exc' = e
    /\ pc' = "finally"
    /\ raised' = e
    /\ left_by' = "bare"

CatchInWsgiAppViaUserHandler(e) ==
    /\ exc' = e
    /\ pc' = "handle_user_exception"
    /\ UNCHANGED << error, raised, left_by >>

CatchInWsgiApp(e) ==
    /\ error' = e
    /\ exc' = e
    /\ IF IsInstance(e, "Exception")
       THEN pc' = "handle_exception" /\ raised' = None /\ UNCHANGED left_by
       ELSE pc' = "finally" /\ raised' = e /\ left_by' = "bare"

\* full_dispatch_request, lines 1487-1488: an exception raised inside its try
CatchInFullDispatch(e) ==
    IF IsInstance(e, "Exception")
    THEN exc' = e /\ pc' = "handle_user_exception"
         /\ UNCHANGED << error, raised, left_by >>
    ELSE CatchInWsgiApp(e)

\* wsgi_app, lines 1968-1972, with RequestContext.push: the request context is
\* pushed, and an application context when none is current
WsgiAppPush ==
    /\ pc = "idle"
    /\ request_ctx_stack = << >>
    /\ \E bp \in Scopes, routing \in {None} \cup RoutingExceptions :
         /\ routing # None => bp = None
         /\ request_ctx_stack' =
              Append(request_ctx_stack, Frame(bp, routing, app_ctx_stack = << >>))
    /\ app_ctx_stack' = IF app_ctx_stack = << >> THEN << "app" >> ELSE app_ctx_stack
    /\ torn' = 0
    /\ serving' = TRUE
    /\ pc' = "full_dispatch"
    /\ rv' = NoneV
    /\ exc' = None
    /\ error' = None
    /\ from_error_handler' = FALSE
    /\ response' = NoResponse
    /\ raised' = None
    /\ left_by' = None
    /\ log' = << >>
    /\ handler_calls' = << >>
    /\ result' = NoResult
    /\ UNCHANGED << config, error_handler_spec, got_first_request,
                    before_request_lock, first_calls, threadVars, probe >>

\* try_trigger_before_first_request_functions, run by a unit no other unit
\* interleaves with: hooks 1..n are invoked, and hook n raises when n <= Len
TryTrigger ==
    /\ pc = "full_dispatch"
    /\ before_request_lock = 0
    /\ IF got_first_request
       THEN /\ pc' = "request_started"
            /\ UNCHANGED << got_first_request, first_calls, log, exc, error, raised,
                            left_by >>
       ELSE \E n \in 1..(Len(before_first_request_funcs) + 1) :
              LET ran == IF n <= Len(before_first_request_funcs) THEN n ELSE n - 1
              IN  /\ log' = log \o Ended(Events("before_first_request",
                                                 before_first_request_funcs, ran, None),
                                          IF n <= Len(before_first_request_funcs)
                                          THEN "raised" ELSE "returned")
                  /\ UNCHANGED first_calls
                  /\ IF n <= Len(before_first_request_funcs)
                     THEN /\ \E cls \in HookRaises : CatchInWsgiApp(cls)
                          /\ UNCHANGED got_first_request
                     ELSE /\ got_first_request' = TRUE
                          /\ pc' = "request_started"
                          /\ UNCHANGED << exc, error, raised, left_by >>
    /\ UNCHANGED << config, error_handler_spec, before_request_lock, serving,
                    request_ctx_stack, app_ctx_stack, rv, from_error_handler,
                    response, handler_calls, torn, result, threadVars, probe >>

\* full_dispatch_request, line 1483: request_started.send(self)
RequestStartedIsolated ==
    /\ pc = "request_started"
    /\ \/ log' = Append(log, Event("request_started", None, None))
       \/ log' = log \o Ended(<< Event("request_started", None, None) >>, "raised")
    /\ pc' = "preprocess"
    /\ UNCHANGED << exc, error, raised, left_by >>
    /\ UNCHANGED << appVars, request_ctx_stack, app_ctx_stack, rv,
                    from_error_handler, response, handler_calls, torn, result,
                    threadVars, probe >>

RequestStarted ==
    /\ pc = "request_started"
    /\ \/ /\ log' = Append(log, Event("request_started", None, None))
          /\ pc' = "preprocess"
          /\ UNCHANGED << exc, error, raised, left_by >>
       \/ /\ log' = log \o Ended(<< Event("request_started", None, None) >>, "raised")
          /\ \E cls \in ListenerRaises : CatchInFullDispatch(cls)
    /\ UNCHANGED << appVars, request_ctx_stack, app_ctx_stack, rv,
                    from_error_handler, response, handler_calls, torn, result,
                    threadVars, probe >>

\* the hooks of the application followed by those of the request's blueprint
ChainBlueprintFirst(app, blueprint, bp) ==
    (IF bp # None THEN blueprint ELSE << >>) \o app

Chain(app, blueprint, bp) == app \o (IF bp # None THEN blueprint ELSE << >>)

\* preprocess_request: the URL value preprocessors, then the before-request
\* hooks until one returns a value or raises
PreprocessRequestNoShortCircuit ==
    /\ pc = "preprocess"
    /\ LET ups == Chain(url_value_preprocessors(None), url_value_preprocessors(Top.bp),
                        Top.bp)
           bfs == Chain(before_request_funcs(None), before_request_funcs(Top.bp), Top.bp)
           upEvents == Events("url_value_preprocessor", ups, Len(ups), None)
       IN  \E n \in 1..Len(bfs) :
              /\ log' = (log \o upEvents)
                           \o Ended(Events("before_request", bfs, n, None), "value")
                           \o [i \in 1..(Len(bfs) - n) |->
                                 Event("before_request", bfs[n + i], None)]
              /\ pc' = "dispatch"
              /\ UNCHANGED << rv, exc, error, raised, left_by >>
    /\ UNCHANGED << appVars, request_ctx_stack, app_ctx_stack, from_error_handler,
                    response, handler_calls, torn, result, threadVars, probe >>

PreprocessRequest ==
    /\ pc = "preprocess"
    /\ LET ups == Chain(url_value_preprocessors(None), url_value_preprocessors(Top.bp),
                        Top.bp)
           bfs == Chain(before_request_funcs(None), before_request_funcs(Top.bp), Top.bp)
           upEvents == Events("url_value_preprocessor", ups, Len(ups), None)
       IN  \/ \E n \in 1..Len(ups), cls \in HookRaises :
                /\ ups[n] \in RaisingHooks
                /\ log' = log \o Ended(Events("url_value_preprocessor", ups, n, None),
                                        "raised")
                /\ CatchInFullDispatch(cls)
                /\ UNCHANGED rv
           \/ \E n \in 1..Len(bfs), cls \in HookRaises :
                /\ bfs[n] \in RaisingHooks
                /\ log' = log \o upEvents
                               \o Ended(Events("before_request", bfs, n, None), "raised")
                /\ CatchInFullDispatch(cls)
                /\ UNCHANGED rv
           \/ \E n \in 1..Len(bfs), v \in HookValues :
                /\ log' = log \o upEvents
                               \o Ended(Events("before_request", bfs, n, None), "value")
                /\ rv' = v
                /\ pc' = "finalize"
                /\ UNCHANGED << exc, error, raised, left_by >>
           \/ /\ log' = log \o upEvents \o Events("before_request", bfs, Len(bfs), None)
              /\ pc' = "dispatch"
              /\ UNCHANGED << rv, exc, error, raised, left_by >>
    /\ UNCHANGED << appVars, request_ctx_stack, app_ctx_stack, from_error_handler,
                    response, handler_calls, torn, result, threadVars, probe >>

\* raise_routing_exception(request): the exception it raises
RaiseRoutingExceptionAsRecorded(c, routing, method) == routing

RaiseRoutingException(c, routing, method) ==
    IF ~Debug(c) \/ ~IsInstance(routing, "RequestRedirect")
       \/ method \in {"GET", "HEAD", "OPTIONS"}
    THEN routing
    ELSE "FormDataRoutingRedirect"

\* make_default_options_response
DefaultOptionsResponse == RespV(DefaultStatus, {<< "Allow", "methods" >>})

\* after_this_request(f) for each f of fs, in order: f is appended to the
\* request context's _after_request_functions
AfterThisRequest(fs) ==
    [request_ctx_stack EXCEPT ![Len(request_ctx_stack)] =
       [@ EXCEPT !.after_request_functions = @ \o fs]]

\* dispatch_request; the view registers its request-scoped functions and returns
\* or raises; the request's method and its rule's provide_automatic_options
\* are read here only, and drawn here
DispatchRequest ==
    /\ pc = "dispatch"
    /\ \E method \in Methods, auto \in BOOLEAN :
         IF Top.routing # None
         THEN /\ log' = Append(log, Event("routing_exception", None,
                                   RaiseRoutingException(config, Top.routing, method)))
              /\ CatchInFullDispatch(RaiseRoutingException(config, Top.routing, method))
              /\ UNCHANGED << rv, request_ctx_stack >>
         ELSE IF auto /\ method = "OPTIONS"
         THEN /\ log' = Append(log, Event("default_options", None, None))
              /\ rv' = DefaultOptionsResponse
              /\ pc' = "finalize"
              /\ UNCHANGED << exc, error, raised, left_by, request_ctx_stack >>
         ELSE /\ request_ctx_stack' = AfterThisRequest(after_this_request_funcs)
              /\ \/ \E v \in ViewValues :
                      /\ log' = log \o Ended(<< Event("view", None, None) >>, "value")
                      /\ rv' = v
                      /\ pc' = "finalize"
                      /\ UNCHANGED << exc, error, raised, left_by >>
                 \/ \E cls \in ViewRaises :
                      /\ log' = log \o Ended(<< Event("view", None, None) >>, "raised")
                      /\ CatchInFullDispatch(cls)
                      /\ UNCHANGED rv
    /\ UNCHANGED << appVars, app_ctx_stack, from_error_handler,
                    response, handler_calls, torn, result, threadVars, probe >>

\* an error handler is called with exception e (original_exception orig)
Called(h, e, orig) == Append(handler_calls, [h |-> h, arg |-> e, orig |-> orig])

\* handle_user_exception(e), with handle_http_exception: the handler it calls,
\* NoHandler when it calls none
UserHandler(spec, c, bp, e) ==
    IF IsInstance(e, "HTTPException") /\ ~TrapHttpException(c, e)
    THEN IF ClassCode(e) = NoCode \/ IsInstance(e, "RoutingException")
         THEN NoHandler
         ELSE FindErrorHandler(spec, bp, e)
    ELSE FindErrorHandler(spec, bp, e)

\* whether handle_user_exception(e) looks a handler up at all
UserLooksUp(c, e) ==
    IF IsInstance(e, "HTTPException") /\ ~TrapHttpException(c, e)
    THEN ~(ClassCode(e) = NoCode \/ IsInstance(e, "RoutingException"))
    ELSE TRUE

\* whether handle_user_exception(e) went through handle_http_exception, where an
\* exception without a handler is returned as the value instead of raised
ViaHttpNever(c, e) == FALSE

ViaHttp(c, e) == IsInstance(e, "HTTPException") /\ ~TrapHttpException(c, e)

HandleUserException ==
    /\ pc = "handle_user_exception"
    /\ LET h == UserHandler(error_handler_spec, config, Top.bp, exc)
       IN  /\ error_handler_spec' =
                IF UserLooksUp(config, exc)
                THEN SpecAfterFind(error_handler_spec, Top.bp, exc)
                ELSE error_handler_spec
           /\ IF h = NoHandler
              THEN /\ UNCHANGED handler_calls
                   /\ IF ViaHttp(config, exc)
                      THEN /\ rv' = ExcV(exc)
                           /\ pc' = "finalize"
                           /\ UNCHANGED << exc, error, raised, left_by >>
                      ELSE /\ CatchInWsgiApp(exc)
                           /\ UNCHANGED rv
              ELSE /\ handler_calls' = Called(h, exc, None)
                   /\ \/ \E v \in HandlerValues :
                           /\ rv' = v
                           /\ pc' = "finalize"
                           /\ UNCHANGED << exc, error, raised, left_by >>
                      \/ \E cls \in HandlerRaises :
                           /\ CatchInWsgiApp(cls)
                           /\ UNCHANGED rv
    /\ UNCHANGED << config, got_first_request, before_request_lock, first_calls,
                    serving, request_ctx_stack, app_ctx_stack, from_error_handler,
                    response, log, torn, result, threadVars, probe >>

\* process_response: the functions registered for this request only, then the
\* after-request hooks of the blueprint, reversed, then those of the
\* application, reversed
AfterRequestOrderAsRegistered(ctx) ==
    (ctx.after_request_functions
        \o (IF ctx.bp # None THEN Reversed(after_request_funcs(ctx.bp)) ELSE << >>))
       \o after_request_funcs(None)

AfterRequestOrderGlobalFirst(ctx) ==
    (Reversed(after_request_funcs(None))
        \o (IF ctx.bp # None THEN Reversed(after_request_funcs(ctx.bp)) ELSE << >>))
       \o ctx.after_request_functions

AfterRequestOrderScopedReversed(ctx) ==
    (Reversed(ctx.after_request_functions)
        \o (IF ctx.bp # None THEN Reversed(after_request_funcs(ctx.bp)) ELSE << >>))
       \o Reversed(after_request_funcs(None))

AfterRequestOrder(ctx) ==
    (ctx.after_request_functions
       \o (IF ctx.bp # None THEN Reversed(after_request_funcs(ctx.bp)) ELSE << >>))
       \o Reversed(after_request_funcs(None))

AfterEventsSkipped(afs, n) == << >>

AfterEventsRepeated(afs, n) ==
    [i \in 1..(2 * n) |->
       [ev |-> "after_request", who |-> afs[((i - 1) % n) + 1],
        arg |-> IF i = 1 THEN "make_response"
                ELSE IF i = n + 1 THEN afs[n] ELSE afs[((i - 2) % n) + 1],
        out |-> "value"]]

\* process_response, lines 1792-1793: the first n functions of afs are called,
\* the first with the response make_response built, each other with the response
\* the one before it returned
AfterEvents(afs, n) ==
    [i \in 1..n |->
       [Event("after_request", afs[i], IF i = 1 THEN "make_response" ELSE afs[i - 1])
          EXCEPT !.out = "value"]]

\* finalize_request, lines 1509-1513: a failure of process_response or of a
\* request_finished listener is logged and suppressed exactly when
\* from_error_handler is set
SuppressedAlways(flag) == TRUE

Suppressed(flag) == flag

\* finalize_request(rv, from_error_handler): make_response, process_response,
\* request_finished.send
FinalizeRequest ==
    /\ pc = "finalize"
    /\ LET m == MakeResponse(rv)
           afs == AfterRequestOrder(Top)
           failed(evs, e) ==
              IF Suppressed(from_error_handler)
              THEN /\ log' = (log \o evs) \o << Event("logger.exception", None, e) >>
                   /\ response' = m.resp
                   /\ pc' = "finally"
                   /\ UNCHANGED << exc, error, raised, left_by >>
              ELSE /\ log' = log \o evs
                   /\ CatchInWsgiApp(e)
                   /\ UNCHANGED response
       IN  IF ~m.ok
           THEN /\ UNCHANGED << log, response >>
                /\ IF from_error_handler
                   THEN /\ raised' = "TypeError"
                        /\ left_by' = "normalizer"
                        /\ pc' = "finally"
                        /\ UNCHANGED << exc, error >>
                   ELSE CatchInWsgiApp("TypeError")
           ELSE \/ \E n \in 1..Len(afs), cls \in HookRaises :
                     /\ afs[n] \in RaisingHooks
                     /\ failed(Ended(AfterEvents(afs, n), "raised"), cls)
                \/ \E cls \in ListenerRaises :
                     failed(AfterEvents(afs, Len(afs))
                               \o Ended(<< Event("request_finished", None, afs[Len(afs)]) >>,
                                        "raised"),
                            cls)
                \/ /\ log' = (log \o AfterEvents(afs, Len(afs)))
                               \o << Event("request_finished", None, afs[Len(afs)]) >>
                   /\ response' = m.resp
                   /\ pc' = "finally"
                   /\ UNCHANGED << exc, error, raised, left_by >>
    /\ UNCHANGED << appVars, request_ctx_stack, app_ctx_stack, rv, from_error_handler,
                    handler_calls, torn, result, threadVars, probe >>

\* handle_exception, lines 1407-1410: server_error = InternalServerError();
\* server_error.original_exception = e
ServerErrorIsOriginal(e) == [cls |-> e, original_exception |-> None]

ServerError(e) == [cls |-> "InternalServerError", original_exception |-> e]

\* handle_exception(e): got_request_exception.send, then the exception is
\* re-raised (propagate_exceptions) or an InternalServerError goes to its handler
\* and to finalize_request(..., from_error_handler=True)
HandleException ==
    /\ pc = "handle_exception"
    /\ LET h == FindErrorHandler(error_handler_spec, Top.bp, "InternalServerError")
           server_error == ServerError(error)
           leave(e, why) == /\ raised' = e
                            /\ left_by' = why
                            /\ pc' = "finally"
                            /\ UNCHANGED << rv, from_error_handler >>
       IN  \/ /\ \E cls \in ListenerRaises : leave(cls, "listener")
              /\ log' = Append(log, Event("got_request_exception", None, error))
              /\ UNCHANGED << error_handler_spec, handler_calls >>
           \/ /\ log' = Append(log, Event("got_request_exception", None, error))
              /\ IF PropagateExceptions(config)
                 THEN /\ leave(error, "propagate")
                      /\ UNCHANGED << error_handler_spec, handler_calls >>
                 ELSE /\ error_handler_spec' =
                           SpecAfterFind(error_handler_spec, Top.bp, "InternalServerError")
                      /\ IF h = NoHandler
                         THEN /\ rv' = ExcV("InternalServerError")
                              /\ from_error_handler' = TRUE
                              /\ pc' = "finalize"
                              /\ UNCHANGED << raised, left_by, handler_calls >>
                         ELSE /\ handler_calls' = Called(h, server_error.cls,
                                                     server_error.original_exception)
                              /\ \/ \E v \in HandlerValues :
                                      /\ rv' = v
                                      /\ from_error_handler' = TRUE
                                      /\ pc' = "finalize"
                                      /\ UNCHANGED << raised, left_by >>
                                 \/ \E cls \in HandlerRaises : leave(cls, "handler")
    /\ UNCHANGED << config, got_first_request, before_request_lock, first_calls,
                    serving, request_ctx_stack, app_ctx_stack, exc, error, response,
                    torn, result, threadVars, probe >>

\* do_teardown_request(exc): the teardown-request hooks in the order they are
\* called, then the request_tearing_down signal
TeardownRequestOrderBlueprintFirst(bp) ==
    (IF bp # None THEN Reversed(teardown_request_funcs(bp)) ELSE << >>)
       \o Reversed(teardown_request_funcs(None))

TeardownRequestOrder(bp) ==
    Reversed(teardown_request_funcs(None))
       \o (IF bp # None THEN Reversed(teardown_request_funcs(bp)) ELSE << >>)

DoTeardownRequest(bp, e) ==
    Events("teardown_request", TeardownRequestOrder(bp),
           Len(TeardownRequestOrder(bp)), e)
       \o << Event("request_tearing_down", None, e) >>

\* do_teardown_appcontext(exc)
DoTeardownAppcontext(e) ==
    Events("teardown_appcontext", Reversed(teardown_appcontext_funcs),
           Len(teardown_appcontext_funcs), e)
       \o << Event("appcontext_tearing_down", None, e) >>

\* RequestContext.pop(exc): the teardown of the top request context, its removal,
\* and the teardown and removal of the application context it owns
Pop(e) ==
    /\ log' = (log \o DoTeardownRequest(Top.bp, e))
                \o (IF Top.owns_app THEN DoTeardownAppcontext(e) ELSE << >>)
    /\ torn' = torn + 1
    /\ request_ctx_stack' = SubSeq(request_ctx_stack, 1, Len(request_ctx_stack) - 1)
    /\ app_ctx_stack' = IF Top.owns_app
                        THEN SubSeq(app_ctx_stack, 1, Len(app_ctx_stack) - 1)
                        ELSE app_ctx_stack

\* RequestContext.auto_pop(exc): the pop, deferred when the test harness asked
\* to preserve the context (environ["flask._preserve_context"])
AutoPop(e, preserve) ==
    IF preserve
    THEN /\ request_ctx_stack' =
              [request_ctx_stack EXCEPT ![Len(request_ctx_stack)] =
                 [@ EXCEPT !.preserved = TRUE, !.preserved_exc = e]]
         /\ UNCHANGED << app_ctx_stack, torn, log >>
    ELSE Pop(e)

\* wsgi_app, lines 1980-1984: the response is handed over or the exception
\* leaves, and the finally clause runs
WsgiAppFinallyOnSuccessOnly ==
    /\ pc = "finally"
    /\ IF raised = None
       THEN \E preserve \in BOOLEAN :
              AutoPop(IF ShouldIgnoreError(error) THEN None ELSE error, preserve)
       ELSE UNCHANGED << request_ctx_stack, app_ctx_stack, torn, log >>
    /\ result' = [kind |-> IF raised = None THEN "response" ELSE "raised",
                  status |-> IF raised = None THEN response.status ELSE 0,
                  exc |-> raised,
                  propagate |-> PropagateExceptions(config)]
    /\ pc' = "idle"
    /\ UNCHANGED << appVars, rv, exc, error, from_error_handler, response, raised,
                    left_by, handler_calls, threadVars, probe >>

WsgiAppFinallyNoPop ==
    /\ pc = "finally"
    /\ UNCHANGED << request_ctx_stack, app_ctx_stack, torn, log >>
    /\ result' = [kind |-> IF raised = None THEN "response" ELSE "raised",
                  status |-> IF raised = None THEN response.status ELSE 0,
                  exc |-> raised,
                  propagate |-> PropagateExceptions(config)]
    /\ pc' = "idle"
    /\ UNCHANGED << appVars, rv, exc, error, from_error_handler, response, raised,
                    left_by, handler_calls, threadVars, probe >>

WsgiAppFinally ==
    /\ pc = "finally"
    /\ \E preserve \in BOOLEAN :
         AutoPop(IF ShouldIgnoreError(error) THEN None ELSE error, preserve)
    /\ result' = [kind |-> IF raised = None THEN "response" ELSE "raised",
                  status |-> IF raised = None THEN response.status ELSE 0,
                  exc |-> raised,
                  propagate |-> PropagateExceptions(config)]
    /\ pc' = "idle"
    /\ UNCHANGED << appVars, rv, exc, error, from_error_handler, response, raised,
                    left_by, handler_calls, threadVars, probe >>

\* the test harness pops the context it asked to preserve
HarnessPop ==
    /\ pc = "idle"
    /\ request_ctx_stack # << >>
    /\ Top.preserved
    /\ Pop(Top.preserved_exc)
    /\ UNCHANGED << appVars, pc, rv, exc, error, from_error_handler, response,
                    raised, left_by, handler_calls, result, threadVars, probe >>

Next ==
    \/ Register
    \/ WsgiAppPush
    \/ TryTrigger
    \/ RequestStarted
    \/ PreprocessRequest
    \/ DispatchRequest
    \/ HandleUserException
    \/ FinalizeRequest
    \/ HandleException
    \/ WsgiAppFinally
    \/ HarnessPop

Spec == Init /\ [][Next]_vars

(***************************************************************************)
(* SpecFind: error handlers are registered on the application and on the   *)
(* blueprint, and _find_error_handler is applied to an exception of any    *)
(* class raised in a request of either scope.  A registration forgets the  *)
(* last lookup, so a recorded lookup is one made on the present registry.  *)
(***************************************************************************)
InitFind ==
    /\ InitCommon
    /\ config = DefaultConfig
    /\ tpc = << >>
    /\ tidx = << >>
    /\ tleft = << >>

FindRegister ==
    /\ NumHandlers(error_handler_spec) < MaxFindHandlers
    /\ \E name \in Scopes, cls \in FindClasses :
         /\ cls \notin HandlerMap(error_handler_spec, name, GetExcClassAndCode(cls).code)
         /\ error_handler_spec' = RegisterErrorHandler(error_handler_spec, name, cls)
    /\ probe' = NoProbe
    /\ UNCHANGED << config, got_first_request, before_request_lock, first_calls,
                    serving, unitVars, threadVars >>

FindLookup ==
    /\ \E bp \in Scopes, cls \in Classes :
         /\ probe' = [bp |-> bp, cls |-> cls,
                      handler |-> FindErrorHandler(error_handler_spec, bp, cls)]
         /\ error_handler_spec' = SpecAfterFind(error_handler_spec, bp, cls)
    /\ UNCHANGED << config, got_first_request, before_request_lock, first_calls,
                    serving, unitVars, threadVars >>

NextFind ==
    \/ FindRegister
    \/ FindLookup

SpecFind == InitFind /\ [][NextFind]_vars

(***************************************************************************)
(* Properties of one call of wsgi_app (Spec).                              *)
(***************************************************************************)
\* a call of wsgi_app has returned or raised, and no other has begun
Returned == pc = "idle" /\ result.kind # "none"

\* the times hook h (or listener) was invoked for event ev in the present call
Invoked(ev, h) == Cardinality({ i \in 1..Len(log) : log[i].ev = ev /\ log[i].who = h })

\* the request context of the call is still on the stack because its pop was
\* deferred
Preserved == request_ctx_stack # << >> /\ Top.preserved

\* propagate mode, read off the configuration
PropagateOff ==
    \/ config.PROPAGATE_EXCEPTIONS = "False"
    \/ config.PROPAGATE_EXCEPTIONS = "None" /\ ~config.TESTING /\ ~config.DEBUG

AppTeardownHooks == SeqToSet(teardown_request_funcs(None))
BlueprintTeardownHooks == UNION { SeqToSet(teardown_request_funcs(b)) : b \in Blueprints }

\* C1: for every call of wsgi_app no teardown-request hook runs twice, none
\* runs before the finally clause, and when wsgi_app has returned or raised,
\* whichever path the dispatch took, each teardown-request hook of the
\* application has run exactly once, unless the pop of the request context was
\* deferred (the context is preserved), and then none has run yet.
C1_TeardownOncePerCall ==
    [](
      /\ \A h \in AppTeardownHooks \cup BlueprintTeardownHooks :
           Invoked("teardown_request", h) <= 1
      /\ pc # "idle" => \A h \in AppTeardownHooks \cup BlueprintTeardownHooks :
                           Invoked("teardown_request", h) = 0
      /\ Returned =>
           IF Preserved
           THEN \A h \in AppTeardownHooks \cup BlueprintTeardownHooks :
                  Invoked("teardown_request", h) = 0
           ELSE /\ request_ctx_stack = << >>
                /\ torn = 1
                /\ \A h \in AppTeardownHooks : Invoked("teardown_request", h) = 1
    )

\* an after-request hook raised, the call went through the error pass, and the
\* teardown hooks have run once
C1_Witness ==
    /\ Returned
    /\ ~Preserved
    /\ error # None
    /\ Invoked("after_request", "a2") >= 1
    /\ Invoked("after_request", "a1") = 0
    /\ Invoked("request_finished", None) = 0
    /\ \A h \in AppTeardownHooks : Invoked("teardown_request", h) = 1

\* C1 as stated: when wsgi_app has returned or raised, the teardown-request
\* hooks have run exactly once
C1_AsStated ==
    Returned => \A h \in AppTeardownHooks : Invoked("teardown_request", h) = 1

\* C2: the request context pushed at the start of wsgi_app is the current one
\* during dispatch, and after wsgi_app returns or raises, on every path, it has
\* been popped together with the application context pushed with it, unless
\* its pop was deferred (the context is preserved).
C2_PushPopBalanced ==
    /\ pc # "idle" => Len(request_ctx_stack) = 1 /\ Len(app_ctx_stack) = 1
                       /\ ~Top.preserved
    /\ Returned => \/ request_ctx_stack = << >> /\ app_ctx_stack = << >>
                   \/ Len(request_ctx_stack) = 1 /\ Top.preserved

\* an exception left wsgi_app and the contexts are gone
C2_Witness ==
    /\ Returned
    /\ result.kind = "raised"
    /\ request_ctx_stack = << >>
    /\ app_ctx_stack = << >>

\* C2 as stated: after wsgi_app returns or raises no request context is current
C2_AsStated ==
    Returned => request_ctx_stack = << >>

\* no handler registered on any scope is one a lookup for class cls may return
NoHandlerFor(cls) ==
    \A name \in DOMAIN error_handler_spec :
       \A r \in error_handler_spec[name] :
          ~( /\ r.cls \in SeqToSet(Mro(cls))
             /\ r.code \in { NoCode, IF "HTTPException" \in SeqToSet(Mro(cls))
                                      THEN ClassCode(cls) ELSE NoCode } )

C6_OneOutcome ==
    Returned =>
       /\ result.kind \in { "response", "raised" }
       /\ (result.kind = "response") <=> (raised = None /\ response # NoResponse)
       /\ (result.kind = "raised") <=> (result.exc # None)
       /\ (result.kind = "raised" /\ PropagateOff) =>
             \/ left_by = "bare" /\ "Exception" \notin SeqToSet(Mro(result.exc))
             \/ /\ left_by \in { "listener", "handler", "normalizer" }
                /\ error # None
                /\ left_by = "handler" => handler_calls # << >>
                /\ left_by = "normalizer" => from_error_handler

\* propagate mode is off and the exception the view raised ended as the 500
\* response, after the user error handler called for it had failed in its turn
\* (it raised, or returned what make_response rejects)
C6_Witness ==
    /\ Returned
    /\ PropagateOff
    /\ Invoked("view", None) = 1
    /\ exc # None
    /\ handler_calls # << >>
    /\ error # None
    /\ result.kind = "response"
    /\ result.status = 500

\* C6 as stated: an exception leaves wsgi_app only when propagate mode is on
C6_AsStated ==
    (Returned /\ result.kind = "raised") => ~PropagateOff

\* C9: no error handler is ever called with a RoutingException, under every
\* configuration and whatever handlers are registered.
C9_RoutingExceptionNeverHandled ==
    \A i \in 1..Len(handler_calls) :
       "RoutingException" \notin SeqToSet(Mro(handler_calls[i].arg))

\* C10: when trap_http_exception is true of a raised HTTP exception, no error
\* handler is called for it.
C10_TrappedNeverHandled ==
    \A i \in 1..Len(handler_calls) :
       ~( /\ "HTTPException" \in SeqToSet(Mro(handler_calls[i].arg))
          /\ handler_calls[i].orig = None
          /\ TrapHttpException(config, handler_calls[i].arg) )

(***************************************************************************)
(* SpecFirst: threads 1..NThreads serve requests of one application, each  *)
(* statement of try_trigger_before_first_request_functions a step of its   *)
(* own, and run() returns at any moment.  The rest of a request is one     *)
(* step.                                                                   *)
(***************************************************************************)
Threads == 1..NThreads

InitFirst ==
    /\ InitCommon
    /\ config = DefaultConfig
    /\ tpc = [t \in Threads |-> "idle"]
    /\ tidx = [t \in Threads |-> 0]
    /\ tleft = [t \in Threads |-> MaxRequests]

firstFrame == << config, error_handler_spec, serving, unitVars, probe >>

\* a request reaches full_dispatch_request, line 1481
FirstRequest(t) ==
    /\ tpc[t] = "idle"
    /\ tleft[t] > 0
    /\ tleft' = [tleft EXCEPT ![t] = @ - 1]
    /\ tpc' = [tpc EXCEPT ![t] = "check"]
    /\ UNCHANGED << got_first_request, before_request_lock, first_calls, tidx, runs,
                    first_raised, firstFrame >>

CheckFlagAlwaysLocks(t) ==
    /\ tpc[t] = "check"
    /\ tpc' = [tpc EXCEPT ![t] = "acquire"]
    /\ UNCHANGED << got_first_request, before_request_lock, first_calls, tidx, tleft,
                    runs, first_raised, firstFrame >>

\* lines 1523-1524: if self._got_first_request: return
CheckFlag(t) ==
    /\ tpc[t] = "check"
    /\ tpc' = [tpc EXCEPT ![t] = IF got_first_request THEN "dispatch" ELSE "acquire"]
    /\ UNCHANGED << got_first_request, before_request_lock, first_calls, tidx, tleft,
                    runs, first_raised, firstFrame >>

\* line 1525: with self._before_request_lock
AcquireLock(t) ==
    /\ tpc[t] = "acquire"
    /\ before_request_lock = 0
    /\ before_request_lock' = t
    /\ tpc' = [tpc EXCEPT ![t] = "recheck"]
    /\ UNCHANGED << got_first_request, first_calls, tidx, tleft, runs, first_raised,
                    firstFrame >>

\* lines 1526-1527: the flag is read again under the lock
RecheckSkipped(t) ==
    /\ tpc[t] = "recheck"
    /\ tpc' = [tpc EXCEPT ![t] = "hooks"]
    /\ tidx' = [tidx EXCEPT ![t] = 1]
    /\ UNCHANGED << got_first_request, before_request_lock, first_calls, tleft, runs,
                    first_raised, firstFrame >>

Recheck(t) ==
    /\ tpc[t] = "recheck"
    /\ IF got_first_request
       THEN /\ before_request_lock' = 0
            /\ tpc' = [tpc EXCEPT ![t] = "dispatch"]
            /\ UNCHANGED tidx
       ELSE /\ tpc' = [tpc EXCEPT ![t] = "hooks"]
            /\ tidx' = [tidx EXCEPT ![t] = 1]
            /\ UNCHANGED before_request_lock
    /\ UNCHANGED << got_first_request, first_calls, tleft, runs, first_raised,
                    firstFrame >>

CallHookKeepsLock(t) ==
    /\ tpc[t] = "hooks"
    /\ tidx[t] <= Len(before_first_request_funcs)
    /\ first_calls' = [first_calls EXCEPT ![before_first_request_funcs[tidx[t]]] = @ + 1]
    /\ \/ /\ tidx' = [tidx EXCEPT ![t] = @ + 1]
          /\ UNCHANGED << tpc, first_raised >>
       \/ /\ tpc' = [tpc EXCEPT ![t] = "failed"]
          /\ first_raised' = TRUE
          /\ UNCHANGED tidx
    /\ UNCHANGED << got_first_request, before_request_lock, tleft, runs, firstFrame >>

\* lines 1528-1529: the next hook is called; it returns, or it raises and the
\* with statement releases the lock on the way out
CallHook(t) ==
    /\ tpc[t] = "hooks"
    /\ tidx[t] <= Len(before_first_request_funcs)
    /\ first_calls' = [first_calls EXCEPT ![before_first_request_funcs[tidx[t]]] = @ + 1]
    /\ \/ /\ tidx' = [tidx EXCEPT ![t] = @ + 1]
          /\ UNCHANGED << tpc, before_request_lock, first_raised >>
       \/ /\ before_request_lock' = 0
          /\ tpc' = [tpc EXCEPT ![t] = "failed"]
          /\ first_raised' = TRUE
          /\ UNCHANGED tidx
    /\ UNCHANGED << got_first_request, tleft, runs, firstFrame >>

SetFlagBeforeHooks(t) ==
    /\ tpc[t] = "hooks"
    /\ got_first_request' = TRUE
    /\ before_request_lock' = 0
    /\ tpc' = [tpc EXCEPT ![t] = "dispatch"]
    /\ UNCHANGED << first_calls, tidx, tleft, runs, first_raised, firstFrame >>

\* line 1530: self._got_first_request = True, and the lock is released
SetFlag(t) ==
    /\ tpc[t] = "hooks"
    /\ tidx[t] > Len(before_first_request_funcs)
    /\ got_first_request' = TRUE
    /\ before_request_lock' = 0
    /\ tpc' = [tpc EXCEPT ![t] = "dispatch"]
    /\ UNCHANGED << first_calls, tidx, tleft, runs, first_raised, firstFrame >>

\* the rest of the request: full_dispatch_request from line 1482 on, or, after a
\* hook raised, handle_exception
FinishRequest(t) ==
    /\ tpc[t] \in { "dispatch", "failed" }
    /\ tpc' = [tpc EXCEPT ![t] = "idle"]
    /\ UNCHANGED << got_first_request, before_request_lock, first_calls, tidx, tleft,
                    runs, first_raised, firstFrame >>

\* run(), lines 846-849: the development server returns
Run ==
    /\ runs < MaxRuns
    /\ runs' = runs + 1
    /\ got_first_request' = FALSE
    /\ UNCHANGED << before_request_lock, first_calls, tpc, tidx, tleft, first_raised,
                    firstFrame >>

NextFirst ==
    \/ \E t \in Threads : FirstRequest(t)
    \/ \E t \in Threads : CheckFlag(t)
    \/ \E t \in Threads : AcquireLock(t)
    \/ \E t \in Threads : Recheck(t)
    \/ \E t \in Threads : CallHook(t)
    \/ \E t \in Threads : SetFlag(t)
    \/ \E t \in Threads : FinishRequest(t)
    \/ Run

SpecFirst == InitFirst /\ [][NextFirst]_vars

\* the steps of thread t inside try_trigger_before_first_request_functions
TriggerStep(t) ==
    CheckFlag(t) \/ AcquireLock(t) \/ Recheck(t) \/ CallHook(t) \/ SetFlag(t)

\* SpecFirst with threads that are scheduled again and again and hooks that
\* come back: a thread that can take its next statement of
\* try_trigger_before_first_request_functions eventually takes it.  Each thread
\* issues MaxFairRequests requests.
InitFirstFair ==
    /\ InitCommon
    /\ config = DefaultConfig
    /\ tpc = [t \in Threads |-> "idle"]
    /\ tidx = [t \in Threads |-> 0]
    /\ tleft = [t \in Threads |-> MaxFairRequests]

SpecFirstFair ==
    InitFirstFair /\ [][NextFirst]_vars /\ \A t \in Threads : WF_vars(TriggerStep(t))

(***************************************************************************)
(* Properties of the before-first hooks (SpecFirst).                       *)
(***************************************************************************)
FirstHooks == SeqToSet(before_first_request_funcs)

\* some request has got past try_trigger_before_first_request_functions
PastTrigger ==
    \E t \in Threads :
       tpc[t] = "dispatch" \/ (tpc[t] = "idle" /\ tleft[t] < MaxRequests)

\* C3: while the application is fresh (no before-first hook has raised and run()
\* has not returned), under every interleaving of the threads' first requests
\* no before-first hook is invoked twice, and once a request is past
\* try_trigger_before_first_request_functions each hook has been invoked
\* exactly once in total.
C3_FirstHooksOnceUnderRace ==
    (runs = 0 /\ ~first_raised) =>
       /\ \A h \in FirstHooks : first_calls[h] <= 1
       /\ (got_first_request \/ PastTrigger) => \A h \in FirstHooks : first_calls[h] = 1

\* two threads both found the flag unset; one ran the hooks, the other holds
\* the lock after it and has not read the flag again yet
C3_Witness ==
    /\ runs = 0
    /\ ~first_raised
    /\ \E t, u \in Threads :
         /\ t # u
         /\ tpc[t] = "dispatch"
         /\ tleft[t] = MaxRequests - 1
         /\ tpc[u] = "recheck"
         /\ tleft[u] = MaxRequests - 1
    /\ \A h \in FirstHooks : first_calls[h] = 1

\* C4: over any sequence of requests, raising before-first hooks and returns of
\* run(), each before-first hook is invoked at most once.
C4_FirstHooksAtMostOnce ==
    \A h \in FirstHooks : first_calls[h] <= 1

\* thread t is inside try_trigger_before_first_request_functions
InTrigger(t) == tpc[t] \in { "check", "acquire", "recheck", "hooks" }

\* thread t takes a step that leaves the function by a return
LeavesNormally(t) == InTrigger(t) /\ tpc'[t] = "dispatch"

\* C31: a thread leaves try_trigger_before_first_request_functions by a return
\* only with the flag set, the flag is set only by a thread whose last
\* before-first hook has returned, and so while a request is at its
\* preprocessing hooks or its handler every before-first hook has been invoked.
C31_DispatchAfterFirstHooks ==
    /\ [][ \A t \in Threads : LeavesNormally(t) => got_first_request' ]_vars
    /\ [][ (~got_first_request /\ got_first_request') =>
              \E t \in Threads :
                 /\ tpc[t] = "hooks"
                 /\ tidx[t] > Len(before_first_request_funcs)
                 /\ before_request_lock = t
                 /\ LeavesNormally(t) ]_vars
    /\ [](\A t \in Threads :
             tpc[t] = "dispatch" => \A h \in FirstHooks : first_calls[h] >= 1)

\* a request is at its dispatch while another thread waits for the lock
C31_Witness ==
    \E t, u \in Threads :
       /\ tpc[t] = "dispatch"
       /\ tpc[u] = "acquire"
       /\ got_first_request
       /\ \A h \in FirstHooks : first_calls[h] >= 1

\* C32: a thread that reads the flag set at lines 1523-1524 returns at once: it
\* goes on to the dispatch without waiting for the lock, and the lock is left
\* as it was, whoever holds it.
C32_NoLockOnceFlagSet ==
    [][ \A t \in Threads :
           (tpc[t] = "check" /\ tpc'[t] # "check" /\ got_first_request) =>
              /\ tpc'[t] = "dispatch"
              /\ before_request_lock' = before_request_lock ]_vars

\* the second request of a thread is at its dispatch while another thread, which
\* read the flag unset before it was set, holds the lock
C32_Witness ==
    \E t, u \in Threads :
       /\ t # u
       /\ tpc[t] = "dispatch"
       /\ tleft[t] = MaxRequests - 2
       /\ got_first_request
       /\ tpc[u] = "recheck"
       /\ before_request_lock = u

\* thread t takes the step in which a before-first hook raises
HookRaisesIn(t) == tpc[t] = "hooks" /\ tpc'[t] = "failed"

Registered(name, cls) ==
    /\ name \in DOMAIN error_handler_spec
    /\ \E r \in error_handler_spec[name] : r.cls = cls

\* the code an exception of class cls is looked up under
CodeOf(cls) == IF "HTTPException" \in SeqToSet(Mro(cls)) THEN ClassCode(cls) ELSE NoCode

\* the place of map (name, c) in the order the lookup of an exception with code
\* `code` raised under blueprint bp is to follow; 0 when the map is not tried
MapRank(bp, code, name, c) ==
    IF name = bp /\ c = code /\ code # NoCode THEN 1
    ELSE IF name = None /\ c = code /\ code # NoCode THEN 2
    ELSE IF name = bp /\ c = NoCode THEN 3
    ELSE IF name = None /\ c = NoCode THEN 4
    ELSE 0

\* the place of class a among cls and its ancestors, nearest first; 0 when a is
\* not one of them
MroRank(cls, a) ==
    IF a \notin SeqToSet(Mro(cls)) THEN 0
    ELSE CHOOSE i \in 1..Len(Mro(cls)) : Mro(cls)[i] = a

\* the registered handlers a lookup of (bp, cls) may return
Candidates(bp, cls) ==
    { h \in [name : DOMAIN error_handler_spec, code : {NoCode, CodeOf(cls)},
              cls : SeqToSet(Mro(cls))] :
        /\ [code |-> h.code, cls |-> h.cls] \in error_handler_spec[h.name]
        /\ MapRank(bp, CodeOf(cls), h.name, h.code) # 0 }

Before(bp, cls, h, g) ==
    \/ MapRank(bp, CodeOf(cls), h.name, h.code) < MapRank(bp, CodeOf(cls), g.name, g.code)
    \/ /\ MapRank(bp, CodeOf(cls), h.name, h.code) = MapRank(bp, CodeOf(cls), g.name, g.code)
       /\ MroRank(cls, h.cls) <= MroRank(cls, g.cls)

\* C7: when an exception of class E is raised in a request of a blueprint and
\* handlers for E are registered both on the application and on the blueprint,
\* _find_error_handler returns the blueprint's handler for E.
C7_BlueprintHandlerWins ==
    ( /\ probe # NoProbe
      /\ probe.bp # None
      /\ Registered(probe.bp, probe.cls)
      /\ Registered(None, probe.cls) )
    => probe.handler = Handler(probe.bp, CodeOf(probe.cls), probe.cls)

C7_Witness ==
    /\ probe # NoProbe
    /\ probe.bp # None
    /\ Registered(probe.bp, probe.cls)
    /\ Registered(None, probe.cls)
    /\ probe.handler.name = probe.bp

\* C8: _find_error_handler returns the first match in the order blueprint map
\* of the code, application map of the code, blueprint map of classes,
\* application map of classes, the exception's own class before its ancestors
\* and nearer ancestors first inside each map; it returns no handler exactly
\* when no map has a match.
C8_FixedLookupOrder ==
    probe # NoProbe =>
      LET cands == Candidates(probe.bp, probe.cls)
      IN  /\ (probe.handler = NoHandler) <=> (cands = {})
          /\ probe.handler # NoHandler =>
                /\ probe.handler \in cands
                /\ \A g \in cands : Before(probe.bp, probe.cls, probe.handler, g)

\* a global handler keyed by the status code won over a blueprint handler keyed
\* by an ancestor class
C8_Witness ==
    /\ probe # NoProbe
    /\ probe.bp # None
    /\ CodeOf(probe.cls) # NoCode
    /\ probe.handler = Handler(None, CodeOf(probe.cls), probe.cls)
    /\ \E a \in SeqToSet(Mro(probe.cls)) :
         /\ a # probe.cls
         /\ [code |-> NoCode, cls |-> a] \in
              (IF probe.bp \in DOMAIN error_handler_spec
               THEN error_handler_spec[probe.bp] ELSE {})

(***************************************************************************)
(* Properties of the hooks of one request (Spec), read off the invocations *)
(* the present call has made so far.                                       *)
(***************************************************************************)
\* the invocation at place i of the log is of kind ev and ended the way out says
Is(i, ev, out) == log[i].ev = ev /\ log[i].out = out

\* the invocations that belong to resolving and running the route handler
DispatchEvents == { "view", "default_options", "routing_exception" }

PreprocessEvents == { "url_value_preprocessor", "before_request" }

IsUrlEvent(e) == e.ev = "url_value_preprocessor"
IsBeforeEvent(e) == e.ev = "before_request"

\* the names of the hooks invoked by the events of evs, in order
Who(evs) == [i \in 1..Len(evs) |-> evs[i].who]

\* C11: in preprocess_request the first before-request hook that returns a value
\* stops the phase: no before-request hook, URL-value preprocessor or route
\* handler is invoked after it, finalize_request is entered next with that value
\* (the first after-request function receives the response make_response built
\* from it), and unless a later step fails the response of the call is the
\* one make_response builds from the hook's value.
C11_BeforeRequestShortCircuit ==
    \A i \in 1..Len(log) :
       Is(i, "before_request", "value") =>
          /\ \A j \in (i + 1)..Len(log) :
                log[j].ev \notin DispatchEvents
                                   \cup { "before_request", "url_value_preprocessor" }
          /\ i = Len(log) => /\ pc = "finalize"
                             /\ ~from_error_handler
                             /\ rv \in HookValues
          /\ i < Len(log) => /\ log[i + 1].ev = "after_request"
                             /\ log[i + 1].arg = "make_response"
          /\ (pc \in { "finally", "idle" } /\ error = None /\ raised = None) =>
                /\ rv \in HookValues
                /\ response = MakeResponse(rv).resp

\* the first before-request hook returned a value, the second was not invoked,
\* and the call is about to return the response made from the value
C11_Witness ==
    /\ pc = "finally"
    /\ error = None
    /\ raised = None
    /\ \E i \in 1..Len(log) : Is(i, "before_request", "value") /\ log[i].who = "b1"
    /\ Invoked("before_request", "b2") = 0
    /\ Invoked("view", None) = 0
    /\ response = MakeResponse(StrV).resp

\* the place of hook h in the list regs, 0 when it is not in it
IndexOf(h, regs) ==
    IF \E k \in 1..Len(regs) : regs[k] = h
    THEN CHOOSE k \in 1..Len(regs) : regs[k] = h
    ELSE 0

\* the hook that runs directly before hook h when the hooks app of the
\* application are followed by the hooks blueprint of the request's blueprint,
\* each list in registration order; None for the first hook of the application
ChainPredecessor(h, app, blueprint) ==
    IF IndexOf(h, app) > 1 THEN app[IndexOf(h, app) - 1]
    ELSE IF IndexOf(h, blueprint) > 1 THEN blueprint[IndexOf(h, blueprint) - 1]
    ELSE IF IndexOf(h, blueprint) = 1 THEN app[Len(app)]
    ELSE None

\* the invocation at place i directly follows the invocation, of the same kind,
\* of hook h, which returned
FollowsInPhase(i, h) ==
    /\ i > 1
    /\ log[i - 1].ev = log[i].ev
    /\ log[i - 1].who = h
    /\ log[i - 1].out = "returned"

\* the last URL-value preprocessor of a request of blueprint bp
LastPreprocessor(bp) ==
    IF bp # None
    THEN url_value_preprocessors(bp)[Len(url_value_preprocessors(bp))]
    ELSE url_value_preprocessors(None)[Len(url_value_preprocessors(None))]

\* C17: in preprocess_request all URL-value preprocessors run before any
\* before-request hook; in each of the two phases the hooks of the application
\* run before the hooks of the request's blueprint, and inside each scope the
\* hooks run in registration order.
C17_PreprocessOrder ==
    [](
      \A i \in 1..Len(log) :
         /\ IsUrlEvent(log[i]) =>
               \E b \in Blueprints :
                  LET p == ChainPredecessor(log[i].who, url_value_preprocessors(None),
                                            url_value_preprocessors(b))
                  IN  IF p = None
                      THEN i > 1 => log[i - 1].ev \notin PreprocessEvents
                      ELSE FollowsInPhase(i, p)
         /\ IsBeforeEvent(log[i]) =>
               \E b \in Blueprints :
                  LET p == ChainPredecessor(log[i].who, before_request_funcs(None),
                                            before_request_funcs(b))
                  IN  IF p = None
                      THEN /\ i > 1
                           /\ IsUrlEvent(log[i - 1])
                           /\ log[i - 1].out = "returned"
                           /\ log[i - 1].who \in { LastPreprocessor(None), LastPreprocessor(b) }
                           /\ request_ctx_stack # << >> =>
                                 log[i - 1].who = LastPreprocessor(Top.bp)
                      ELSE FollowsInPhase(i, p)
    )

\* in a request of the blueprint every preprocessor and every before-request
\* hook has run, the blueprint's after the application's
C17_Witness ==
    /\ pc = "dispatch"
    /\ Top.bp # None
    /\ Len(log) >= 6
    /\ Who(SubSeq(log, Len(log) - 5, Len(log))) = << "u1", "u2", "bu1", "b1", "b2", "bb1" >>
    /\ IsUrlEvent(log[Len(log) - 3])
    /\ IsBeforeEvent(log[Len(log)])

IsAfterEvent(i) == i \in 1..Len(log) /\ log[i].ev = "after_request"

\* the after-request invocation at place i directly follows the one of hook h
\* and received the response that one returned
FollowsAfter(i, h) ==
    /\ IsAfterEvent(i - 1)
    /\ log[i - 1].who = h
    /\ log[i - 1].out = "value"
    /\ log[i].arg = h

\* C12: the after-request hooks of the application, registered [h1, h2, h3], are
\* applied in the order [h3, h2, h1]: each one but the last registered runs
\* directly after the hook registered next and receives the response that hook
\* returned.
C12_AppAfterRequestReversed ==
    [](
      LET regs == after_request_funcs(None)
      IN  \A i \in 1..Len(log) :
             (IsAfterEvent(i) /\ IndexOf(log[i].who, regs) \in 1..(Len(regs) - 1)) =>
                FollowsAfter(i, regs[IndexOf(log[i].who, regs) + 1])
    )

\* the three hooks of the application have run as a3, a2, a1 and the response
\* of a1 has gone to the request_finished listeners
C12_Witness ==
    \E i \in 3..(Len(log) - 1) :
       /\ IsAfterEvent(i)
       /\ log[i].who = "a1" /\ log[i].arg = "a2"
       /\ log[i - 1].who = "a2" /\ log[i - 1].arg = "a3"
       /\ log[i - 2].who = "a3"
       /\ Is(i + 1, "request_finished", "returned")
       /\ log[i + 1].arg = "a1"

\* the group of an after-request function: 1 registered for this request only,
\* 2 registered on a blueprint, 3 registered on the application
ScopedAfterHooks == SeqToSet(after_this_request_funcs)

BlueprintAfterHooks == UNION { SeqToSet(after_request_funcs(b)) : b \in Blueprints }

AfterGroup(h) ==
    IF h \in ScopedAfterHooks THEN 1
    ELSE IF h \in BlueprintAfterHooks THEN 2
    ELSE 3

\* C13: process_response runs three groups in this order: the functions
\* registered for this request only, the hooks of the matched blueprint, the
\* hooks of the application; the first function receives the response
\* make_response built and every later one the response of the one before.
C13_AfterRequestGroups ==
    [](
      \A i \in 1..Len(log) :
         IsAfterEvent(i) =>
            /\ IF IsAfterEvent(i - 1)
               THEN /\ AfterGroup(log[i - 1].who) <= AfterGroup(log[i].who)
                    /\ FollowsAfter(i, log[i - 1].who)
               ELSE log[i].arg = "make_response"
            /\ (AfterGroup(log[i].who) = 2 /\ request_ctx_stack # << >>) =>
                  log[i].who \in SeqToSet(after_request_funcs(Top.bp))
            /\ (i < Len(log) /\ log[i].out = "value" /\ ~IsAfterEvent(i + 1)) =>
                  /\ log[i + 1].ev = "request_finished"
                  /\ AfterGroup(log[i].who) = 3
    )

\* in a request of the blueprint whose handler registered functions for this
\* request, a function of each group has run, in the order of the groups
C13_Witness ==
    \E i \in 2..(Len(log) - 2) :
       /\ IsAfterEvent(i - 1) /\ IsAfterEvent(i) /\ IsAfterEvent(i + 1)
       /\ IsAfterEvent(i + 2)
       /\ AfterGroup(log[i - 1].who) = 1
       /\ AfterGroup(log[i].who) = 2
       /\ AfterGroup(log[i + 1].who) = 2
       /\ AfterGroup(log[i + 2].who) = 3
       /\ Invoked("request_finished", None) > 0

IsTeardownEvent(i) == i \in 1..Len(log) /\ log[i].ev = "teardown_request"

IsAppTeardownEvent(i) == i \in 1..Len(log) /\ log[i].ev = "teardown_appcontext"

\* the teardown-request hook h was registered on a blueprint
OnBlueprint(h) == \E b \in Blueprints : IndexOf(h, teardown_request_funcs(b)) > 0

\* C15 (as the code has it): in do_teardown_request the teardown hooks of the
\* application all run before the teardown hooks of the request's blueprint:
\* the first hook to run is one of the application, and no hook of the
\* application runs after a hook of the blueprint.
C15_GlobalTeardownFirst ==
    \A i \in 1..Len(log) :
       IsTeardownEvent(i) =>
          /\ IsTeardownEvent(i + 1) =>
                (OnBlueprint(log[i].who) => OnBlueprint(log[i + 1].who))
          /\ ~IsTeardownEvent(i - 1) => ~OnBlueprint(log[i].who)

\* the context of a request of the blueprint has been torn down: the hooks of
\* the application ran first, the hooks of the blueprint after them
C15_Witness ==
    \E i \in 1..(Len(log) - 4) :
       /\ Who(SubSeq(log, i, i + 3)) = << "t2", "t1", "bt2", "bt1" >>
       /\ \A j \in i..(i + 3) : IsTeardownEvent(j)
       /\ log[i + 4].ev = "request_tearing_down"

\* C15 as stated: the teardown hooks of the blueprint all run before the
\* teardown hooks of the application.
C15_AsStated ==
    \A i \in 1..Len(log) :
       (IsTeardownEvent(i) /\ IsTeardownEvent(i + 1)) =>
          (OnBlueprint(log[i + 1].who) => OnBlueprint(log[i].who))

\* the invocation at place i, of a hook of the list regs, directly follows the
\* invocation of the hook registered after it, when there is one
AfterLaterRegistered(i, regs) ==
    IndexOf(log[i].who, regs) \in 1..(Len(regs) - 1) =>
       /\ log[i - 1].ev = log[i].ev
       /\ log[i - 1].who = regs[IndexOf(log[i].who, regs) + 1]

\* C16: within each scope the teardown-request hooks run in reverse registration
\* order, the teardown-appcontext hooks run in reverse registration order, and
\* each tearing-down notification is emitted only after the last hook of its
\* teardown, with the exception the hooks received.
C16_TeardownReversed ==
    \A i \in 1..Len(log) :
       /\ IsTeardownEvent(i) =>
             /\ AfterLaterRegistered(i, teardown_request_funcs(None))
             /\ \A b \in Blueprints : AfterLaterRegistered(i, teardown_request_funcs(b))
             /\ i < Len(log)
             /\ IsTeardownEvent(i + 1) \/ log[i + 1].ev = "request_tearing_down"
             /\ log[i + 1].arg = log[i].arg
       /\ IsAppTeardownEvent(i) =>
             /\ AfterLaterRegistered(i, teardown_appcontext_funcs)
             /\ i < Len(log)
             /\ IsAppTeardownEvent(i + 1) \/ log[i + 1].ev = "appcontext_tearing_down"
             /\ log[i + 1].arg = log[i].arg
       /\ log[i].ev = "request_tearing_down" =>
             /\ IsTeardownEvent(i - 1)
             /\ IndexOf(log[i - 1].who, teardown_request_funcs(None)) = 1
                  \/ \E b \in Blueprints :
                        IndexOf(log[i - 1].who, teardown_request_funcs(b)) = 1
             /\ ~IsTeardownEvent(i + 1)
       /\ log[i].ev = "appcontext_tearing_down" =>
             /\ IsAppTeardownEvent(i - 1)
             /\ log[i - 1].who = teardown_appcontext_funcs[1]
             /\ ~IsAppTeardownEvent(i + 1)

\* both contexts of a failed request of the blueprint have been torn down, every
\* list of hooks from its last registered hook to its first, each notification
\* after the hooks
C16_Witness ==
    \E i \in 1..(Len(log) - 7) :
       /\ Who(SubSeq(log, i, i + 3)) = << "t2", "t1", "bt2", "bt1" >>
       /\ log[i + 4].ev = "request_tearing_down"
       /\ Who(SubSeq(log, i + 5, i + 6)) = << "ta2", "ta1" >>
       /\ log[i + 7].ev = "appcontext_tearing_down"
       /\ log[i + 7].arg # None

\* the invocation at place i was made while recovering from an unhandled
\* exception, that is after handle_exception notified got_request_exception
InRecovery(i) == \E j \in 1..(i - 1) : log[j].ev = "got_request_exception"

\* C18 (as the code has it): a failure of a request_started listener is caught
\* by full_dispatch_request like a failure of the dispatch: neither a
\* preprocessing hook nor the route handler is invoked and the exception goes
\* to handle_user_exception.  A failure of a request_finished listener in the
\* first finalize_request leaves no response and goes to handle_exception; only
\* in the finalize_request of the recovery is it logged and the response kept.
C18_ListenerFailureIsHandled ==
    [](
      \A i \in 1..Len(log) :
         /\ Is(i, "request_started", "raised") =>
               /\ \A j \in (i + 1)..Len(log) :
                     log[j].ev \notin DispatchEvents \cup PreprocessEvents
               /\ i = Len(log) => /\ pc \notin { "preprocess", "dispatch" }
                                  /\ pc = "handle_user_exception" => exc \in ListenerRaises
                                  /\ response = NoResponse
         /\ (Is(i, "request_finished", "raised") /\ ~InRecovery(i)) =>
               /\ i = Len(log) => /\ pc = "handle_exception"
                                  /\ error \in ListenerRaises
                                  /\ response = NoResponse
               /\ i < Len(log) => /\ log[i + 1].ev = "got_request_exception"
                                  /\ log[i + 1].arg \in ListenerRaises
         /\ (Is(i, "request_finished", "raised") /\ InRecovery(i)) =>
               /\ i < Len(log)
               /\ log[i + 1].ev = "logger.exception"
               /\ pc \in { "finally", "idle" } => /\ raised = None
                                                  /\ response = MakeResponse(rv).resp
    )

\* a request_started listener failed, the route handler was never invoked and
\* the call ended with the response of the recovery
C18_Witness ==
    /\ pc = "finally"
    /\ \E i \in 1..Len(log) : Is(i, "request_started", "raised")
    /\ Invoked("view", None) = 0
    /\ from_error_handler
    /\ response = MakeResponse(ExcV("InternalServerError")).resp

\* C18 as stated: after a failed request_started listener the request goes on
\* to its preprocessing as after a listener that returned, and after a failed
\* request_finished listener the response goes on to the teardown.
C18_AsStated ==
    \A i \in 1..(Len(log) - 1) :
       /\ Is(i, "request_started", "raised") =>
             log[i + 1].ev = "url_value_preprocessor"
       /\ Is(i, "request_finished", "raised") =>
             log[i + 1].ev \in { "teardown_request", "logger.exception" }

\* C19: when an after-request hook raises inside finalize_request, then with
\* from_error_handler set the failure is logged and suppressed and the response
\* make_response built is still returned, and with from_error_handler not set
\* the exception leaves finalize_request, with no response, for handle_exception.
C19_AfterRequestFailure ==
    [](
      \A i \in 1..Len(log) :
         Is(i, "after_request", "raised") =>
            IF InRecovery(i)
            THEN /\ i < Len(log)
                 /\ log[i + 1].ev = "logger.exception"
                 /\ from_error_handler
                 /\ pc \in { "finally", "idle" }
                 /\ raised = None
                 /\ response = MakeResponse(rv).resp
            ELSE /\ i = Len(log) => /\ pc = "handle_exception"
                                    /\ ~from_error_handler
                                    /\ error \in HookRaises
                                    /\ response = NoResponse
                 /\ i < Len(log) => /\ log[i + 1].ev = "got_request_exception"
                                    /\ log[i + 1].arg \in HookRaises
    )

\* an after-request hook raised in the finalize_request of the recovery, and the
\* call is about to return the response made before the hooks ran
C19_Witness ==
    /\ pc = "finally"
    /\ from_error_handler
    /\ raised = None
    /\ response # NoResponse
    /\ Len(log) > 1
    /\ Is(Len(log) - 1, "after_request", "raised")
    /\ InRecovery(Len(log) - 1)

\* handle_exception has taken an exception over and its got_request_exception
\* listeners have returned
PastGotRequestException ==
    /\ \E i \in 1..Len(log) : log[i].ev = "got_request_exception"
    /\ left_by # "listener"

\* the calls of error handlers that handle_exception made
ServerErrorCalls == { k \in 1..Len(handler_calls) : handler_calls[k].orig # None }

CallMethods == { "GET", "HEAD", "OPTIONS", "POST", "PUT" }

\* the exceptions URL matching records in request.routing_exception
RecordedRoutingExceptions == { "NotFound", "MethodNotAllowed", "RequestRedirect" }

InitCalls ==
    /\ InitCommon
    /\ config \in SpecConfigs
    /\ tpc = << >>
    /\ tidx = << >>
    /\ tleft = << >>

callFrame == << config, error_handler_spec, got_first_request, before_request_lock,
                first_calls, serving, unitVars, threadVars >>

\* raise_routing_exception(request) with request.routing_exception = routing
CallRaiseRoutingException ==
    /\ probe = NoProbe
    /\ \E routing \in RecordedRoutingExceptions, method \in CallMethods :
         probe' = [fn |-> "raise_routing_exception", routing |-> routing,
                   method |-> method,
                   out |-> RaiseRoutingException(config, routing, method)]
    /\ UNCHANGED callFrame

\* the headers a response object passed to make_response already has
PresetHeaders == { << "X-A", "1" >>, << "X-B", "2" >> }

\* the values make_response is called with: bodies of every kind, ...
MakeBodies ==
    { NoneV, TextV("created"), BytesV, DictV, ObjV, IntV(7), V("wsgi"),
      RespV(404, PresetHeaders), TupleV(<< StrV >>) }

\* ... the statuses and the headers of every kind given with them, ...
GivenStatuses == { IntV(201), StatusStrV(202), NoneV }

GivenHeaders ==
    { HeadersV("dict", { << "X-A", "9" >>, << "X-C", "3" >> }),
      HeadersV("headers", { << "X-C", "3" >> }),
      HeadersV("tuple", { << "X-B", "8" >> }),
      HeadersV("list", {}),
      NoneV }

\* ... and the tuples of zero to four elements made of them
MakeValues ==
    MakeBodies
       \cup { TupleV(<< >>) }
       \cup { TupleV(<< b >>) : b \in MakeBodies }
       \cup { TupleV(<< b, x >>) : b \in MakeBodies, x \in GivenStatuses \cup GivenHeaders }
       \cup { TupleV(<< b, st, hd >>) :
                 b \in MakeBodies, st \in GivenStatuses, hd \in GivenHeaders }
       \cup { TupleV(<< b, IntV(201), NoneV, NoneV >>) : b \in MakeBodies }

\* make_response(rv)
CallMakeResponse ==
    /\ probe = NoProbe
    /\ \E v \in MakeValues :
         probe' = [fn |-> "make_response", rv |-> v, out |-> MakeResponse(v)]
    /\ UNCHANGED callFrame

\* a methods argument or attribute: absent, a str, or a collection of names
NoMethods == [kind |-> "none", set |-> {}]
StrMethods == [kind |-> "str", set |-> {}]
SetMethods(ms) == [kind |-> "set", set |-> ms]

\* str.upper() on the method names the model uses
Upper(m) ==
    CASE m = "get" -> "GET"
      [] m = "post" -> "POST"
      [] m = "options" -> "OPTIONS"
      [] OTHER -> m

\* werkzeug.routing.Rule(methods=ms): HEAD is added to a rule that accepts GET
RuleMethods(ms) == IF "GET" \in ms THEN ms \cup { "HEAD" } ELSE ms

NoRule == [ok |-> FALSE, methods |-> {}, provide_automatic_options |-> FALSE]

\* add_url_rule, lines 1027-1059: the methods and the provide_automatic_options
\* mark of the rule added to the url_map; ok is FALSE where TypeError is raised.
\* methods is the option given by the caller, view_methods, required_methods
\* and view_pao are the attributes of view_func, pao is the argument
AddUrlRule(methods, view_methods, required_methods, pao, view_pao) ==
    LET given == IF methods.kind # "none" THEN methods
                 ELSE IF view_methods.kind = "none" \/ view_methods.set = {}
                 THEN SetMethods({ "GET" })
                 ELSE view_methods
        upper == { Upper(m) : m \in given.set }
        asked == IF pao # "None" THEN pao ELSE view_pao
        implicit == asked = "None" /\ "OPTIONS" \notin upper
        required == required_methods \cup (IF implicit THEN { "OPTIONS" } ELSE {})
    IN  IF given.kind = "str" THEN NoRule
        ELSE [ok |-> TRUE,
              methods |-> RuleMethods(upper \cup required),
              provide_automatic_options |-> IF asked = "None" THEN implicit
                                            ELSE asked = "True"]

\* the arguments add_url_rule is called with
MethodsOptions ==
    { NoMethods, StrMethods }
       \cup { SetMethods(ms) : ms \in SUBSET { "GET", "post", "OPTIONS" } }

ViewMethods == { NoMethods, SetMethods({}), SetMethods({ "POST" }),
                 SetMethods({ "get", "options" }) }

RequiredMethods == { {}, { "OPTIONS" }, { "PUT" } }

\* add_url_rule(rule, view_func=f, methods=..., provide_automatic_options=...)
CallAddUrlRule ==
    /\ probe = NoProbe
    /\ \E methods \in MethodsOptions, view_methods \in ViewMethods,
          required_methods \in RequiredMethods, pao \in Tri, view_pao \in Tri :
         probe' = [fn |-> "add_url_rule", methods |-> methods,
                   view_methods |-> view_methods,
                   required_methods |-> required_methods,
                   pao |-> pao, view_pao |-> view_pao,
                   out |-> AddUrlRule(methods, view_methods, required_methods,
                                      pao, view_pao)]
    /\ UNCHANGED callFrame

\* MapAdapter.match(method) on the rules of the requested path, in the order
\* they were added: the place of the first rule that accepts the method, 0 when
\* none does
Match(rules, method) ==
    LET hits == { i \in 1..Len(rules) : method \in rules[i].methods }
    IN  IF hits = {} THEN 0 ELSE CHOOSE i \in hits : \A j \in hits : i <= j

\* the exception matching records: no rule for the path, or none for the method
MatchFailure(rules) == IF rules = << >> THEN "NotFound" ELSE "MethodNotAllowed"

\* MapAdapter.allowed_methods(): the methods of every rule of the path
AllowedMethods(rules) == UNION { rules[i].methods : i \in 1..Len(rules) }

AutomaticOptionsNever(rule, method) == FALSE

\* dispatch_request, lines 1465-1468: the rule provides automatic options and
\* the request came with the OPTIONS method
AutomaticOptions(rule, method) ==
    rule.provide_automatic_options /\ method = "OPTIONS"

\* dispatch_request for a request of the given method to a path with the given
\* rules: the routing exception is raised, the default OPTIONS response is made
\* with the allowed methods, or the view of the matched rule is called
DispatchOutcome(c, rules, method) ==
    LET i == Match(rules, method)
    IN  IF i = 0
        THEN [kind |-> "raise", rule |-> 0, allow |-> {},
              exc |-> RaiseRoutingException(c, MatchFailure(rules), method)]
        ELSE IF AutomaticOptions(rules[i], method)
        THEN [kind |-> "options", rule |-> i, allow |-> AllowedMethods(rules),
              exc |-> None]
        ELSE [kind |-> "view", rule |-> i, allow |-> {}, exc |-> None]

\* the routes of the requested path: what add_url_rule made of their arguments
RouteMethods == { NoMethods, SetMethods({ "GET" }), SetMethods({ "POST" }),
                  SetMethods({ "OPTIONS" }), SetMethods({ "GET", "OPTIONS" }) }

Routes == { [methods |-> ms, pao |-> pao] : ms \in RouteMethods, pao \in Tri }

AddedRule(route) == AddUrlRule(route.methods, NoMethods, {}, route.pao, "None")

\* dispatch_request() for a request to a path for which zero to two routes
\* were added
CallDispatchRequest ==
    /\ probe = NoProbe
    /\ \E routes \in { << >> } \cup { << r >> : r \in Routes }
                     \cup { << r1, r2 >> : r1 \in Routes, r2 \in Routes },
          method \in CallMethods :
         probe' = [fn |-> "dispatch_request", routes |-> routes, method |-> method,
                   out |-> DispatchOutcome(config,
                                           [i \in 1..Len(routes) |-> AddedRule(routes[i])],
                                           method)]
    /\ UNCHANGED callFrame

\* the HTTP exceptions trap_http_exception is asked about
HttpExceptions == { cls \in Classes : IsInstance(cls, "HTTPException") }

\* trap_http_exception(e) under every configuration
CallTrapHttpException ==
    /\ probe = NoProbe
    /\ \E c \in Configs, cls \in HttpExceptions :
         probe' = [fn |-> "trap_http_exception", config |-> c, cls |-> cls,
                   out |-> TrapHttpException(c, cls)]
    /\ UNCHANGED callFrame

\* view functions and their __name__; f and g are two functions of one name
ViewFuncs == { "f", "g", "h" }
FuncName(f) == IF f = "h" THEN "about" ELSE "index"
Endpoints == { "index", "about" }

\* _endpoint_from_view_func(view_func)
EndpointFromViewFunc(f) == FuncName(f)

\* self.view_functions.get(endpoint)
ViewFunctionsGet(view_functions, endpoint) ==
    IF endpoint \in DOMAIN view_functions THEN view_functions[endpoint] ELSE None

\* self.view_functions[endpoint] = view_func
ViewFunctionsSet(view_functions, endpoint, f) ==
    [e \in DOMAIN view_functions \cup { endpoint } |->
       IF e = endpoint THEN f ELSE view_functions[e]]

\* the rule add_url_rule builds for a path and an endpoint
UrlRule(path, endpoint, made) ==
    [rule |-> path, endpoint |-> endpoint, methods |-> made.methods,
     provide_automatic_options |-> made.provide_automatic_options]

\* an application with a view function bound to each endpoint of some set, and
\* the rule each binding was added with
Apps ==
    { [view_functions |-> vf,
       url_map |-> { UrlRule("/old", e, AddUrlRule(NoMethods, NoMethods, {}, "None", "None")) :
                       e \in DOMAIN vf }] :
        vf \in UNION { [D -> ViewFuncs] : D \in SUBSET Endpoints } }

\* add_url_rule(rule, endpoint, view_func, methods=...) on application app:
\* the exception raised, None for a return, and the url_map and the
\* view_functions the call leaves
AddUrlRuleOnApp(app, path, endpoint, view_func, methods) ==
    LET ep == IF endpoint = None THEN EndpointFromViewFunc(view_func) ELSE endpoint
        made == AddUrlRule(methods, NoMethods, {}, "None", "None")
        added == app.url_map \cup { UrlRule(path, ep, made) }
        old_func == ViewFunctionsGet(app.view_functions, ep)
    IN  IF ~made.ok
        THEN [raised |-> "TypeError", url_map |-> app.url_map,
              view_functions |-> app.view_functions]
        ELSE IF view_func = None
        THEN [raised |-> None, url_map |-> added, view_functions |-> app.view_functions]
        ELSE IF old_func # None /\ old_func # view_func
        THEN [raised |-> "AssertionError", url_map |-> added,
              view_functions |-> app.view_functions]
        ELSE [raised |-> None, url_map |-> added,
              view_functions |-> ViewFunctionsSet(app.view_functions, ep, view_func)]

\* add_url_rule("/new", endpoint, view_func, methods=...) on an application
\* that has bindings; an endpoint is given or a view function to derive it from
CallAddUrlRuleOnApp ==
    /\ probe = NoProbe
    /\ \E app \in Apps, endpoint \in { None } \cup Endpoints,
          view_func \in { None } \cup ViewFuncs,
          methods \in { NoMethods, StrMethods, SetMethods({ "POST" }) } :
         /\ endpoint # None \/ view_func # None
         /\ probe' = [fn |-> "add_url_rule on app", app |-> app, endpoint |-> endpoint,
                      view_func |-> view_func, methods |-> methods,
                      out |-> AddUrlRuleOnApp(app, "/new", endpoint, view_func, methods)]
    /\ UNCHANGED callFrame

NextCalls ==
    \/ CallRaiseRoutingException
    \/ CallMakeResponse
    \/ CallAddUrlRule
    \/ CallDispatchRequest
    \/ CallTrapHttpException
    \/ CallAddUrlRuleOnApp

SpecCalls == InitCalls /\ [][NextCalls]_vars

(***************************************************************************)
(* Properties of single calls (SpecCalls).                                 *)
(***************************************************************************)
\* probe holds a call of function fn
IsCall(fn) == probe # NoProbe /\ probe.fn = fn

SafeMethods == { "GET", "HEAD", "OPTIONS" }

\* C27: when routing recorded a redirect, raise_routing_exception raises
\* FormDataRoutingRedirect instead of the redirect exactly when debug mode is on
\* and the request method is not GET, HEAD or OPTIONS; in every other case it
\* raises the recorded routing exception itself.
C27_RoutingExceptionRaised ==
    IsCall("raise_routing_exception") =>
       IF probe.routing = "RequestRedirect" /\ config.DEBUG
          /\ probe.method \notin SafeMethods
       THEN probe.out = "FormDataRoutingRedirect"
       ELSE probe.out = probe.routing

\* a redirect was recorded for a POST request in debug mode, and the
\* diagnostic exception was raised in its place
C27_Witness ==
    /\ IsCall("raise_routing_exception")
    /\ config.DEBUG
    /\ probe.routing = "RequestRedirect"
    /\ probe.method = "POST"
    /\ probe.out = "FormDataRoutingRedirect"

HeaderKinds == { "headers", "dict", "tuple", "list" }

\* the kinds of body make_response accepts: text, bytes, a mapping, a response
\* object, a callable (a WSGI application, an HTTPException)
AcceptedBodies == { "str", "bytes", "dict", "response", "wsgi", "exception" }

\* rv is a pair or a triple
IsPairOrTriple(v) == v.t = "tuple" /\ Len(v.items) \in { 2, 3 }

\* the body of the value v: its first element when it is a pair or a triple
BodyOf(v) == IF IsPairOrTriple(v) THEN v.items[1] ELSE v

\* the status given with the body, NoneV when none is
StatusOf(v) ==
    IF ~IsPairOrTriple(v) THEN NoneV
    ELSE IF Len(v.items) = 3 THEN v.items[2]
    ELSE IF v.items[2].t \in HeaderKinds THEN NoneV
    ELSE v.items[2]

\* the headers given with the body, the empty set when none are
HeadersOf(v) ==
    IF ~IsPairOrTriple(v) THEN {}
    ELSE IF Len(v.items) = 3 THEN v.items[3].hd
    ELSE IF v.items[2].t \in HeaderKinds THEN v.items[2].hd
    ELSE {}

\* C24: make_response fails with a TypeError and produces no response whenever
\* the body is None (alone or as the body of a pair or triple), whenever the
\* value is a tuple whose length is not 2 or 3, and whenever the body is not
\* text, bytes, a mapping, a response object or a callable; a failure never
\* leaves a response.
C24_MakeResponseRejects ==
    IsCall("make_response") =>
       /\ ( \/ BodyOf(probe.rv).t = "none"
            \/ probe.rv.t = "tuple" /\ Len(probe.rv.items) \notin { 2, 3 }
            \/ BodyOf(probe.rv).t \notin AcceptedBodies ) => ~probe.out.ok
       /\ ~probe.out.ok => probe.out.resp = NoResponse

\* make_response was called with None as the body of a triple and failed
C24_Witness ==
    /\ IsCall("make_response")
    /\ probe.rv = TupleV(<< NoneV, IntV(201),
                            HeadersV("dict", { << "X-A", "9" >>, << "X-C", "3" >> }) >>)
    /\ ~probe.out.ok
    /\ probe.out.resp = NoResponse

\* C25: for a pair (body, x) make_response treats x as headers when x is a
\* Headers, dict, tuple or list and as the status otherwise: with headers the
\* status is the one the body alone gives and the headers are on the response,
\* with a status the response has that status; ("created", 201) gives status
\* 201 with body "created".
C25_PairSecondElement ==
    ( /\ IsCall("make_response")
      /\ probe.rv.t = "tuple"
      /\ Len(probe.rv.items) = 2
      /\ probe.out.ok ) =>
       LET body == probe.rv.items[1]
           x == probe.rv.items[2]
       IN  /\ x.t \in HeaderKinds =>
                /\ probe.out.resp.status = MakeResponse(body).resp.status
                /\ x.hd \subseteq probe.out.resp.headers
           /\ x.t \notin HeaderKinds \cup { "none" } =>
                /\ probe.out.resp.status = x.st
                /\ probe.out.resp.headers = MakeResponse(body).resp.headers
           /\ probe.rv = TupleV(<< TextV("created"), IntV(201) >>) =>
                /\ probe.out.resp.status = 201
                /\ probe.out.resp.body = "created"

\* ("created", 201) was made a response with status 201 and body "created"
C25_Witness ==
    /\ IsCall("make_response")
    /\ probe.rv = TupleV(<< TextV("created"), IntV(201) >>)
    /\ probe.out.ok
    /\ probe.out.resp = Response(201, {}, "created")

\* C26: a response object passed alone to make_response is returned unchanged;
\* passed as the body of a pair or triple, a given status overwrites its status
\* and the given headers are merged into its headers: every header it had that
\* the given headers do not name is still present with its value, the given
\* headers are present, and no other header is.
C26_ResponseObjectKept ==
    ( /\ IsCall("make_response")
      /\ BodyOf(probe.rv).t = "response"
      /\ probe.rv.t = "tuple" => IsPairOrTriple(probe.rv) ) =>
       LET body == BodyOf(probe.rv)
           st == StatusOf(probe.rv)
           given == HeadersOf(probe.rv)
       IN  /\ probe.out.ok
           /\ probe.out.resp.body = "response"
           /\ probe.out.resp.status = IF st.t = "none" THEN body.st ELSE st.st
           /\ \A h \in body.hd :
                 (\A g \in given : g[1] # h[1]) => h \in probe.out.resp.headers
           /\ given \subseteq probe.out.resp.headers
           /\ probe.out.resp.headers \subseteq body.hd \cup given
           /\ probe.rv.t = "response" =>
                 probe.out.resp = Response(body.st, body.hd, "response")

\* a response object with status 404 and two headers was the body of a triple:
\* the status was overwritten, the header the given headers name was replaced
\* and the other one kept
C26_Witness ==
    /\ IsCall("make_response")
    /\ probe.rv = TupleV(<< RespV(404, PresetHeaders), IntV(201),
                            HeadersV("dict", { << "X-A", "9" >>, << "X-C", "3" >> }) >>)
    /\ probe.out.resp.status = 201
    /\ probe.out.resp.headers = { << "X-A", "9" >>, << "X-B", "2" >>, << "X-C", "3" >> }

\* the methods a call of add_url_rule declares: the option, else the methods of
\* the view, else GET; upper-cased
Declared(call) ==
    LET given == IF call.methods.kind # "none" THEN call.methods
                 ELSE IF call.view_methods.kind = "none" \/ call.view_methods.set = {}
                 THEN SetMethods({ "GET" })
                 ELSE call.view_methods
    IN  { Upper(m) : m \in given.set }

\* what the caller or, when the caller says nothing, the handler asks for
Asked(call) == IF call.pao # "None" THEN call.pao ELSE call.view_pao

\* C23 as stated: add_url_rule adds OPTIONS to the methods of every route that
\* does not declare OPTIONS, unless the handler or the caller opts out; a route
\* is marked as providing automatic options exactly when OPTIONS was added
\* implicitly or automatic options were requested explicitly; every route marked
\* so accepts OPTIONS.
C23_AutomaticOptionsAdded ==
    (IsCall("add_url_rule") /\ probe.out.ok) =>
       /\ ("OPTIONS" \notin Declared(probe) /\ Asked(probe) # "False") =>
             "OPTIONS" \in probe.out.methods
       /\ probe.out.provide_automatic_options <=>
             \/ Asked(probe) = "True"
             \/ Asked(probe) = "None" /\ "OPTIONS" \notin Declared(probe)
       /\ probe.out.provide_automatic_options => "OPTIONS" \in probe.out.methods

\* C22: when an OPTIONS request is matched to a route that provides automatic
\* options, no route handler is invoked and the response enumerates all methods
\* the router allows for the path; for a path with one route declared only for
\* GET the enumeration is GET, HEAD and OPTIONS.
C22_AutomaticOptionsResponse ==
    ( /\ IsCall("dispatch_request")
      /\ probe.method = "OPTIONS"
      /\ probe.out.rule # 0
      /\ AddedRule(probe.routes[probe.out.rule]).provide_automatic_options ) =>
       /\ probe.out.kind = "options"
       /\ probe.out.allow =
             UNION { AddedRule(probe.routes[i]).methods : i \in 1..Len(probe.routes) }
       /\ "OPTIONS" \in probe.out.allow
       /\ probe.routes = << [methods |-> SetMethods({ "GET" }), pao |-> "None"] >> =>
             probe.out.allow = { "GET", "HEAD", "OPTIONS" }

\* an OPTIONS request came for the only route of a path, declared for GET: the
\* default response was made, with the three methods
C22_Witness ==
    /\ IsCall("dispatch_request")
    /\ probe.method = "OPTIONS"
    /\ probe.routes = << [methods |-> SetMethods({ "GET" }), pao |-> "None"] >>
    /\ probe.out.kind = "options"
    /\ probe.out.allow = { "GET", "HEAD", "OPTIONS" }

\* the cases in which an HTTP exception of class cls is to be trapped under
\* configuration c, class by class
ShouldTrap(c, cls) ==
    \/ c.TRAP_HTTP_EXCEPTIONS
    \/ /\ c.TRAP_BAD_REQUEST_ERRORS = "None"
       /\ c.DEBUG
       /\ cls = "BadRequestKeyError"
    \/ /\ c.TRAP_BAD_REQUEST_ERRORS = "True"
       /\ cls \in { "BadRequest", "BadRequestKeyError" }

C40_CollisionLeavesAppUnchanged ==
    (IsCall("add_url_rule on app") /\ probe.out.raised = "AssertionError") =>
       /\ probe.out.view_functions = probe.app.view_functions
       /\ probe.out.url_map = probe.app.url_map

(***************************************************************************)
(* Properties of the registry under lookups (SpecFind).                    *)
(***************************************************************************)
\* the step is a lookup: _find_error_handler ran
IsLookup == probe' # NoProbe

\* C29 (as the code has it): looking an error handler up while a request is
\* handled changes no registration: every scope of the registry keeps exactly
\* the handlers it had; the registry itself does change, since the lookup adds
\* an empty map for each scope it tried that had none.
C29_LookupKeepsHandlers ==
    [][ IsLookup =>
          /\ \A n \in DOMAIN error_handler_spec :
                /\ n \in DOMAIN error_handler_spec'
                /\ error_handler_spec'[n] = error_handler_spec[n]
          /\ \A n \in DOMAIN error_handler_spec' \ DOMAIN error_handler_spec :
                /\ n = probe'.bp
                /\ error_handler_spec'[n] = {} ]_vars

\* a handler is registered on the application only, and a lookup made in a
\* request of the blueprint found it and left an empty map for the blueprint
C29_Witness ==
    /\ probe # NoProbe
    /\ probe.bp \in Blueprints
    /\ probe.handler # NoHandler
    /\ probe.handler.name = None
    /\ probe.bp \in DOMAIN error_handler_spec
    /\ error_handler_spec[probe.bp] = {}

\* C29 as stated: after a lookup of an error handler the error-handler registry
\* equals what it was before.
C29_AsStated ==
    [][ IsLookup => error_handler_spec' = error_handler_spec ]_vars

(***************************************************************************)
(* Properties of one call of wsgi_app: unmatched paths, the setup guard,   *)
(* the error the teardown hooks receive.                                   *)
(***************************************************************************)
\* the call is for a path no route matches, and wsgi_app is about to leave
UnmatchedAtEnd ==
    pc = "finally" /\ request_ctx_stack # << >> /\ Top.routing = "NotFound"

\* no hook and no listener raised in the present call
NothingRaised == \A i \in 1..Len(log) : log[i].out # "raised"

\* C21 (as the code has it): a request whose path matches no route never
\* invokes a route handler nor the automatic OPTIONS response; when
\* dispatch_request is reached, no error handler is registered for NotFound or
\* a class it derives from, TRAP_HTTP_EXCEPTIONS is off and no hook or listener
\* raises, wsgi_app returns a response with status 404.
C21_NoRouteGivesNotFound ==
    UnmatchedAtEnd =>
       /\ Invoked("view", None) = 0
       /\ Invoked("default_options", None) = 0
       /\ ( /\ Invoked("routing_exception", None) = 1
            /\ NoHandlerFor("NotFound")
            /\ ~config.TRAP_HTTP_EXCEPTIONS
            /\ NothingRaised )
          => /\ raised = None
             /\ response.status = 404
             /\ handler_calls = << >>

C21_Witness ==
    /\ UnmatchedAtEnd
    /\ Invoked("routing_exception", None) = 1
    /\ NoHandlerFor("NotFound")
    /\ ~config.TRAP_HTTP_EXCEPTIONS
    /\ NothingRaised
    /\ response.status = 404

\* C21 (as stated): every request whose path matches no route gets a response
\* with status 404 and invokes no route handler.
C21_AsStated ==
    UnmatchedAtEnd =>
       /\ raised = None
       /\ response.status = 404
       /\ Invoked("view", None) = 0

\* C28 (as stated): _is_setup_finished is false before the first request, and
\* true once a dispatch has completed in debug mode.
C28_SetupFinishedAfterDispatch ==
    /\ ~serving => ~IsSetupFinished
    /\ (Returned /\ Debug(config)) => IsSetupFinished

\* the response of the call is the value a handler registered for
\* InternalServerError returned to handle_exception
HandledByServerErrorHandler ==
    /\ handler_calls # << >>
    /\ handler_calls[Len(handler_calls)].orig # None
    /\ from_error_handler
    /\ raised = None

\* the response of the call is the value a registered error handler returned to
\* handle_user_exception
HandledByUserHandler ==
    /\ handler_calls # << >>
    /\ handler_calls[Len(handler_calls)].orig = None
    /\ error = None
    /\ raised = None

\* C30 (as stated): the teardown hooks receive an error when the request ended
\* through an exception no handler handled, and receive no error when a
\* registered error handler produced the response, a handler registered for
\* InternalServerError (500) included.
C30_TeardownReceivesError ==
    \A i \in 1..Len(log) :
       log[i].ev \in { "teardown_request", "teardown_appcontext" } =>
          /\ raised # None => log[i].arg # None
          /\ (HandledByUserHandler \/ HandledByServerErrorHandler) => log[i].arg = None

(***************************************************************************)
(* Properties of one call of wsgi_app: routing errors and the preprocessing *)
(* hooks, the passes of finalize_request, the way exceptions take.          *)
(***************************************************************************)
\* the URL-value preprocessors and the before-request hooks of a request whose
\* URL matching failed (it has no blueprint), in the order they run
UnroutedPreprocessors == url_value_preprocessors(None) \o before_request_funcs(None)

\* the call is for a request whose URL matching recorded a routing exception
Unrouted == request_ctx_stack # << >> /\ Top.routing # None

\* C38: the recorded routing exception is raised by dispatch_request only, after
\* every URL-value preprocessor and every before-request hook has run and
\* returned None; when a before-request hook returns a value for such a request
\* the routing exception is never raised and, unless a later step fails, the
\* response is the one made from that value.
C38_RoutingErrorAfterPreprocessing ==
    [](
      \A i \in 1..Len(log) :
         /\ log[i].ev = "routing_exception" =>
               /\ i > Len(UnroutedPreprocessors)
               /\ \A k \in 1..Len(UnroutedPreprocessors) :
                     LET e == log[i - Len(UnroutedPreprocessors) - 1 + k]
                     IN  /\ e.ev \in PreprocessEvents
                         /\ e.who = UnroutedPreprocessors[k]
                         /\ e.out = "returned"
               /\ log[i].arg \in RoutingExceptions \cup { "FormDataRoutingRedirect" }
               /\ Unrouted => log[i].arg \in { Top.routing, "FormDataRoutingRedirect" }
         /\ (Unrouted /\ Is(i, "before_request", "value")) =>
               /\ \A j \in 1..Len(log) : log[j].ev # "routing_exception"
               /\ (pc = "finally" /\ error = None) =>
                     /\ raised = None
                     /\ response = MakeResponse(rv).resp
                     /\ rv \in HookValues
    )

\* for an unmatched path the second before-request hook returned a value, and
\* the call is about to return the response made from it, not the 404
C38_Witness ==
    /\ pc = "finally"
    /\ Unrouted
    /\ Top.routing = "NotFound"
    /\ \E i \in 1..Len(log) : Is(i, "before_request", "value") /\ log[i].who = "b2"
    /\ Invoked("url_value_preprocessor", "u2") = 1
    /\ error = None
    /\ response.status = DefaultStatus

\* every function process_response may call
AllAfterHooks ==
    (ScopedAfterHooks \cup BlueprintAfterHooks) \cup SeqToSet(after_request_funcs(None))

\* the invocations of after-request function h among the first n invocations
AfterCallsUpTo(h, n) ==
    Cardinality({ i \in 1..n : log[i].ev = "after_request" /\ log[i].who = h })

\* the place of the got_request_exception signal in the log, 0 when it was not
\* sent
RecoveryStart ==
    IF \E i \in 1..Len(log) : log[i].ev = "got_request_exception"
    THEN CHOOSE i \in 1..Len(log) : log[i].ev = "got_request_exception"
    ELSE 0

\* the first finalize_request of the call failed in process_response or in a
\* request_finished listener
NormalPassFailed ==
    \E j \in 1..RecoveryStart :
       log[j].out = "raised" /\ log[j].ev \in { "after_request", "request_finished" }

\* C36 (as the code has it): each after-request function is invoked at most
\* once in each pass of finalize_request, so at most twice in one call of
\* wsgi_app: once in the normal pass and once in the pass handle_exception makes.
\* It is invoked twice only when the normal pass failed in an after-request
\* function or a request_finished listener after having invoked it; when
\* make_response raises in the normal pass it is invoked in the second pass only.
C36_AfterRequestOncePerPass ==
    [](
      pc = "finally" =>
         LET start == RecoveryStart
             failed == NormalPassFailed
         IN  \A h \in AllAfterHooks :
                LET before == AfterCallsUpTo(h, start)
                    total == AfterCallsUpTo(h, Len(log))
                IN  /\ before <= 1
                    /\ total - before <= 1
                    /\ total = 2 => from_error_handler /\ failed
                    /\ (error = "TypeError" /\ ~failed) => before = 0
    )

\* the last registered after-request hook of the application ran in the normal
\* pass, the next one raised, and the last registered ran again on the 500
\* response
C36_Witness ==
    /\ pc = "finally"
    /\ AfterCallsUpTo("a3", Len(log)) = 2
    /\ AfterCallsUpTo("a3", RecoveryStart) = 1
    /\ raised = None
    /\ response.status = 500

\* C36 (as stated): during one call of wsgi_app each after-request hook is
\* invoked at most once, also when the request is finalized a second time.
C36_AsStated ==
    pc = "finally" => \A h \in AllAfterHooks : AfterCallsUpTo(h, Len(log)) <= 1

\* the call of wsgi_app is about to hand a response to the transport, or has
\* done so
HandsResponse ==
    \/ pc = "finally" /\ raised = None
    \/ Returned /\ result.kind = "response"

\* C34: every response wsgi_app hands to the transport is the one the last
\* finalize_request made: make_response accepted the value and built it, and
\* process_response was started on it in that pass; the default 500 response,
\* built when no handler for InternalServerError exists, is no exception.
C34_ResponseIsFinalized ==
    [](
      HandsResponse =>
         /\ MakeResponse(rv).ok
         /\ response = MakeResponse(rv).resp
         /\ \E i \in (RecoveryStart + 1)..Len(log) :
               log[i].ev = "after_request" /\ log[i].arg = "make_response"
         /\ (from_error_handler /\ ServerErrorCalls = {}) =>
               /\ rv = ExcV("InternalServerError")
               /\ response.status = 500
    )

\* the default 500 response went through the after-request functions and the
\* request_finished signal
C34_Witness ==
    /\ Returned
    /\ result.kind = "response"
    /\ result.status = 500
    /\ from_error_handler
    /\ handler_calls = << >>
    /\ \E i \in (RecoveryStart + 1)..Len(log) : log[i].ev = "request_finished"

\* no error handler covers an HTTP exception of class cls: it has no code, it is
\* a routing exception, or no handler is registered for it or an ancestor
Uncovered(cls) ==
    \/ ClassCode(cls) = NoCode
    \/ "RoutingException" \in SeqToSet(Mro(cls))
    \/ NoHandlerFor(cls)

\* C33: an HTTP exception caught by full_dispatch_request that is not trapped
\* and that no handler covers comes back from handle_user_exception as the
\* value to finalize: no handler is called, also for an exception without a
\* code while handlers are registered, and handle_exception is not entered with
\* it (an HTTP exception reaches handle_exception only when trapped); unless
\* finalize_request fails, the response is the one make_response builds from the
\* exception and the after-request functions and request_finished received it.
C33_UnhandledHttpExceptionIsResponse ==
    [](
      /\ ( /\ pc = "finalize"
           /\ ~from_error_handler
           /\ exc # None
           /\ "HTTPException" \in SeqToSet(Mro(exc))
           /\ ~ShouldTrap(config, exc)
           /\ Uncovered(exc) )
         => /\ rv = ExcV(exc)
            /\ error = None
            /\ handler_calls = << >>
      /\ (pc = "handle_exception" /\ "HTTPException" \in SeqToSet(Mro(error)))
         => ShouldTrap(config, error)
      /\ (pc = "finally" /\ error = None /\ rv.t = "exception")
         => /\ raised = None
            /\ rv = ExcV(exc)
            /\ response = Response(ExceptionStatus(exc), {}, exc)
            /\ \E i \in 1..Len(log) :
                  log[i].ev = "after_request" /\ log[i].arg = "make_response"
            /\ log[Len(log)].ev = "request_finished"
    )

\* a view raised an HTTPException without a code while a handler for
\* HTTPException is registered: the handler was not called and the exception is
\* the response
C33_Witness ==
    /\ pc = "finally"
    /\ error = None
    /\ rv = ExcV("HTTPException")
    /\ ~NoHandlerFor("HTTPException")
    /\ handler_calls = << >>
    /\ Invoked("got_request_exception", None) = 0
    /\ Invoked("request_finished", None) = 1

\* the first invocation of the call that raised, or the raising of the routing
\* exception: its place in the log, 0 when there is none
FirstFailure ==
    LET fails == { i \in 1..Len(log) :
                     log[i].out = "raised" \/ log[i].ev = "routing_exception" }
    IN  IF fails = {} THEN 0 ELSE CHOOSE i \in fails : \A j \in fails : i <= j

\* the invocations whose exceptions full_dispatch_request catches
CaughtInFullDispatch ==
    { "request_started", "url_value_preprocessor", "before_request", "view",
      "routing_exception" }

\* C37: handle_user_exception is entered at most once in a call, and only with
\* an exception of a request_started listener, a preprocessing hook or
\* dispatch_request; an exception raised in the normal pass by a before-first
\* hook, by make_response or by an after-request function goes to
\* handle_exception, which calls only a handler found for InternalServerError,
\* with the InternalServerError as argument, and never a handler registered for
\* the class of the exception itself.
C37_OnlyDispatchFailuresReachUserHandlers ==
    [](
      /\ \A k \in 1..Len(handler_calls) :
            IF handler_calls[k].orig = None
            THEN /\ k = 1
                 /\ FirstFailure # 0
                 /\ log[FirstFailure].ev \in CaughtInFullDispatch
            ELSE /\ handler_calls[k].arg = "InternalServerError"
                 /\ handler_calls[k].h.cls \in SeqToSet(Mro("InternalServerError"))
      /\ pc = "handle_user_exception" =>
            /\ FirstFailure = Len(log)
            /\ log[FirstFailure].ev \in CaughtInFullDispatch
            /\ handler_calls = << >>
    )

\* an after-request function raised AppError in the normal pass while a handler
\* for AppError is registered: no handler was called
C37_Witness ==
    /\ pc = "finally"
    /\ error = "AppError"
    /\ ~NoHandlerFor("AppError")
    /\ handler_calls = << >>
    /\ FirstFailure # 0
    /\ log[FirstFailure].ev = "after_request"

=============================================================================
